---- MODULE Spec2Model ----
(***************************************************************************)
(* Model of the scraping pipeline of src/src/actions/scrape-actions.ts:    *)
(* the batch entry point scrapeAndStoreArticles, its limiter overallLimit  *)
(* (p-limit), the per-source harvest performScraping and the per-article   *)
(* summarize+store tasks.                                                  *)
(*                                                                         *)
(* Texts (summary, full content, working content) are not kept character   *)
(* by character: a text is the record [len, residue], len being its length *)
(* and residue the number of characters one further pass of cleanContent   *)
(* removes from it (cleanContent is applied to text that selectBest has    *)
(* cleaned once already, and a pass can expose new removable characters).  *)
(* URLs, source names and titles are strings.                              *)
(***************************************************************************)
EXTENDS Integers, Sequences, FiniteSets, TLC

\* ---------------------------------------------------------------- bounds
MaxSources == 2
MaxCandidates == 2
MaxLimit == 2
MaxConcurrency == 3
MaxFetches == 2        \* calls of fetchDynamicContent, one after another
MaxUrlLen == 4         \* characters of the URL that is encoded and decoded
MaxOtherUrlLen == 2    \* characters of the URL it is compared with
MaxPieces == 3         \* pieces of a text given to cleanContent

\* ------------------------------------------------------ program constants
MinContentLength == 20
ContentCap == 8000

Min(a, b) == IF a < b THEN a ELSE b
Max(a, b) == IF a > b THEN a ELSE b

\* ------------------------------------------------------------------ texts
TextLens == {0, 19, 20, 8001}
Residues == {0, 1}
Texts == {t \in [len : TextLens, residue : Residues] : t.residue <= t.len}
EmptyText == [len |-> 0, residue |-> 0]

\* cleanContent on a text that was cleaned before: only its residue goes.
cleanContentLen(t) == [len |-> t.len - t.residue, residue |-> 0]

\* a slice that does not cut
sliceNoCap(t, n) == [len |-> t.len, residue |-> 0]

\* String.prototype.slice(0, n)
slice(t, n) == [len |-> Min(t.len, n), residue |-> 0]

\* ------------------------------------------------------------------- URLs
startsWith(s, p) == Len(s) >= Len(p) /\ SubSeq(s, 1, Len(p)) = p

\* position of the first occurrence of the one-character string c in s
\* at or after position from; 0 when there is none
IndexFrom(s, c, from) ==
    IF \E i \in from..Len(s) : SubSeq(s, i, i) = c
    THEN CHOOSE i \in from..Len(s) :
            /\ SubSeq(s, i, i) = c
            /\ \A j \in from..(i - 1) : SubSeq(s, j, j) # c
    ELSE 0

\* new URL(u) throws when u has no scheme
HasScheme(u) ==
    LET colon == IndexFrom(u, ":", 1)
        slash == IndexFrom(u, "/", 1)
    IN  colon > 1 /\ (slash = 0 \/ colon < slash)

\* scheme://host of an absolute hierarchical URL
Origin(u) ==
    LET colon == IndexFrom(u, ":", 1)
        pathAt == IndexFrom(u, "/", colon + 3)
    IN  IF pathAt = 0 THEN u ELSE SubSeq(u, 1, pathAt - 1)

\* the scheme of a URL that has one
Scheme(u) == SubSeq(u, 1, IndexFrom(u, ":", 1) - 1)

\* the schemes whose URLs must have a host
HostSchemes == {"http", "https", "ftp", "ws", "wss"}

\* what follows the scheme and its colon, without leading slashes
RECURSIVE AfterSlashes(_)
AfterSlashes(s) ==
    IF startsWith(s, "/") THEN AfterSlashes(SubSeq(s, 2, Len(s))) ELSE s

\* new URL(u) throws a TypeError: u has no scheme, or it has a scheme that
\* needs a host and no host
URLThrows(u) ==
    \/ ~HasScheme(u)
    \/ /\ Scheme(u) \in HostSchemes
       /\ AfterSlashes(SubSeq(u, Len(Scheme(u)) + 2, Len(u))) = ""

\* toString() of a parsed absolute URL: the path of a URL with a host is
\* never empty
Serialize(u) ==
    IF /\ Scheme(u) \in HostSchemes
       /\ Origin(u) = u
       /\ IndexFrom(u, "?", 1) = 0
       /\ IndexFrom(u, "#", 1) = 0
    THEN u \o "/"
    ELSE u

\* new URL(relativeUrl, base).toString() for a base that parses, a
\* reference that does not throw, and the link shapes of RawLinks and
\* Candidates: an absolute URL, //host/path, /path, #fragment, ?query, and
\* a path relative to a base whose path has one segment
URLToString(base, rel) ==
    IF HasScheme(rel) THEN Serialize(rel)
    ELSE IF startsWith(rel, "//") THEN Serialize(Scheme(base) \o ":" \o rel)
    ELSE IF startsWith(rel, "/") THEN Origin(base) \o rel
    ELSE IF startsWith(rel, "#") \/ startsWith(rel, "?")
    THEN Serialize(base) \o rel
    ELSE Origin(base) \o "/" \o rel

\* a resolver that returns whatever the reference resolves to
resolveUrlAnyScheme(baseUrl, relativeUrl) ==
    IF relativeUrl = "" THEN ""
    ELSE IF URLThrows(baseUrl) THEN ""
    ELSE IF HasScheme(relativeUrl) /\ URLThrows(relativeUrl) THEN ""
    ELSE URLToString(baseUrl, relativeUrl)

resolveUrl(baseUrl, relativeUrl) ==
    IF relativeUrl = "" THEN ""
    ELSE IF URLThrows(baseUrl) THEN ""
    ELSE IF HasScheme(relativeUrl) /\ URLThrows(relativeUrl) THEN ""
    ELSE LET resolved == URLToString(baseUrl, relativeUrl)
         IN  IF startsWith(resolved, "http") THEN resolved ELSE ""

\* ------------------------------------------------------- source registry
RegistryKeys == {"BBC", "CNN"}

scrapingConfig(source) ==
    IF source = "BBC"
    THEN [url |-> "https://www.bbc.com/news", sourceName |-> "BBC",
          useDynamicContent |-> FALSE, fetchFullArticle |-> TRUE,
          summaryMinLength |-> 20, fullContentSelectors |-> 4]
    ELSE [url |-> "https://www.cnn.com/", sourceName |-> "CNN",
          useDynamicContent |-> TRUE, fetchFullArticle |-> TRUE,
          summaryMinLength |-> 15, fullContentSelectors |-> 4]

genericConfig(source) ==
    [url |-> source, sourceName |-> source,
     useDynamicContent |-> FALSE, fetchFullArticle |-> TRUE,
     summaryMinLength |-> 20, fullContentSelectors |-> 6]

\* the identifiers a caller may pass: registry keys, a bare URL, and a
\* string that is neither
SourceIds == {"CNN", "https://www.bbc.com/news", "nosuch"}

IsKnownSource(source) == source \in RegistryKeys \/ HasScheme(source)

ConfigOf(source) ==
    IF source \in RegistryKeys THEN scrapingConfig(source)
    ELSE genericConfig(source)

\* ------------------------------------------------- listing-page candidates
RawLinks == {"", "mailto:desk@example.org", "/a", "https://www.bbc.com/a"}
Titles == {"", "Headline of the story"}

\* selectBest(..., 'summary'): '' or a text of at least the field's minLength
SummaryTexts(cfg) ==
    {t \in Texts : t.len = 0 \/ t.len >= cfg.summaryMinLength}

\* how the full-article step of a candidate ended: the page was fetched and
\* parsed, or the try block threw. Every throw (request timeout, network
\* error, empty body, error while processing the page) reaches the same
\* catch; the model keeps the timeout and one other kind apart.
FetchFailures == {"timeout", "emptyBody"}
FetchOutcomes == {"ok"} \cup FetchFailures

NoCandidate ==
    [link |-> "", url |-> "", title |-> "", summary |-> EmptyText,
     content |-> EmptyText, fetch |-> "none"]

\* ------------------------------------------------------------------ state
VARIABLES
    sources,        \* argument: the list of source identifiers
    limit,          \* argument: articles per source
    concurrency,    \* argument: the limiter's bound
    batch,          \* "idle", "running", "returned" or "rejected"
    activeCount,    \* overallLimit: tasks holding a slot
    queue,          \* overallLimit: tasks waiting, in submission order
    spc,            \* per source task: its position
    outcome,        \* per source: how performScraping ended
    idx,            \* per source: candidates of the loop consumed so far
    cur,            \* per source: the candidate being processed
    articles,       \* per source: the local array articles
    seenUrls,       \* per source: the local set seenUrls
    apc,            \* per source, per article: the article task's position
    totalArticlesScraped,
    processedCount,
    allErrors,      \* sequence of [source, url] ("" when no url)
    result,         \* the returned ScrapeResult
    fetchTimeouts,  \* history: URLs of the emitted articles whose
                    \* full-article fetch threw a timeout
    unit            \* a helper function taken on its own: its arguments,
                    \* its position and its result (NoUnit in a batch)

vars == <<sources, limit, concurrency, batch, activeCount, queue, spc,
          outcome, idx, cur, articles, seenUrls, apc,
          totalArticlesScraped, processedCount, allErrors, result,
          fetchTimeouts, unit>>

\* the variables of the batch
batchVars == <<sources, limit, concurrency, batch, activeCount, queue, spc,
               outcome, idx, cur, articles, seenUrls, apc,
               totalArticlesScraped, processedCount, allErrors, result,
               fetchTimeouts>>

inputs == <<sources, limit, concurrency>>
harvestVars == <<outcome, idx, cur, articles, seenUrls>>
counters == <<totalArticlesScraped, processedCount, allErrors>>

SeqsUpTo(S, n) == UNION {[1..m -> S] : m \in 0..n}

SrcTask(i) == [kind |-> "src", i |-> i, k |-> 0]
ArtTask(i, k) == [kind |-> "art", i |-> i, k |-> k]

\* a ratio n/d, kept as numerator and denominator
Ratio(n, d) == [num |-> n, den |-> d]

NoResult ==
    [success |-> FALSE, processedCount |-> 0, sourcesAttempted |-> 0,
     articlesScraped |-> 0, errors |-> <<>>, successRate |-> Ratio(0, 1)]

\* no helper function is looked at on its own
NoUnit == [fn |-> "none"]

Init ==
    /\ sources \in SeqsUpTo(SourceIds, MaxSources)
    /\ limit \in 0..MaxLimit
    /\ concurrency \in 0..MaxConcurrency
    /\ batch = "idle"
    /\ activeCount = 0
    /\ queue = <<>>
    /\ spc = [i \in DOMAIN sources |-> "unborn"]
    /\ outcome = [i \in DOMAIN sources |-> "pending"]
    /\ idx = [i \in DOMAIN sources |-> 0]
    /\ cur = [i \in DOMAIN sources |-> NoCandidate]
    /\ articles = [i \in DOMAIN sources |-> <<>>]
    /\ seenUrls = [i \in DOMAIN sources |-> {}]
    /\ apc = [i \in DOMAIN sources |-> <<>>]
    /\ totalArticlesScraped = 0
    /\ processedCount = 0
    /\ allErrors = <<>>
    /\ result = NoResult
    /\ fetchTimeouts = {}
    /\ unit = NoUnit

\* ------------------------------------------------------ p-limit (limiter)
\* pLimit(concurrency) throws unless concurrency is an integer >= 1
pLimitAccepts(c) == c >= 1

\* how many queued tasks the limiter starts when active slots are held
NumAdmitted(active, q) == Max(0, Min(concurrency - active, Len(q)))

\* a limiter that starts the newest waiting tasks first
AdmittedNewestFirst(active, q) ==
    SubSeq(q, Len(q) - Max(0, Min(concurrency - active, Len(q))) + 1, Len(q))

\* the waiting tasks the limiter starts: the oldest first
Admitted(active, q) == SubSeq(q, 1, NumAdmitted(active, q))

\* the tasks that keep waiting
Waiting(active, q) == SubSeq(q, NumAdmitted(active, q) + 1, Len(q))

StartedIn(st, t) == \E n \in DOMAIN st : st[n] = t

\* a started source task runs performScraping; a started article task
\* calls summarizeArticle
spcStarted(sp, st) ==
    [i \in DOMAIN sp |-> IF StartedIn(st, SrcTask(i)) THEN "scraping" ELSE sp[i]]
apcStarted(ap, st) ==
    [i \in DOMAIN ap |->
        [k \in DOMAIN ap[i] |->
            IF StartedIn(st, ArtTask(i, k)) THEN "summarize" ELSE ap[i][k]]]

\* overallLimit after the tasks of newq were submitted with active slots
\* held: the head of the queue starts while a slot is free
Limiter(active, newq, sp, ap) ==
    /\ activeCount' = active + NumAdmitted(active, newq)
    /\ queue' = Waiting(active, newq)
    /\ spc' = spcStarted(sp, Admitted(active, newq))
    /\ apc' = apcStarted(ap, Admitted(active, newq))

\* ------------------------------------------------ scrapeAndStoreArticles
\* the call: create the limiter and submit one task per source
Invoke ==
    /\ batch = "idle"
    /\ IF ~pLimitAccepts(concurrency)
       THEN /\ batch' = "rejected"
            /\ UNCHANGED <<activeCount, queue, spc, apc>>
       ELSE /\ batch' = "running"
            /\ Limiter(0, [i \in DOMAIN sources |-> SrcTask(i)],
                       [i \in DOMAIN sources |-> "queued"], apc)
    /\ UNCHANGED <<unit, fetchTimeouts, inputs, harvestVars, counters, result>>

\* ------------------------------------------------------- performScraping
\* entry of performScraping: pick the configuration, or give up on a source
\* that is neither a registry key nor a URL (returns [] without throwing)
ResolveConfig(i) ==
    /\ batch = "running"
    /\ spc[i] = "scraping"
    /\ IF IsKnownSource(sources[i])
       THEN /\ spc' = [spc EXCEPT ![i] = "fetchListing"]
            /\ UNCHANGED outcome
       ELSE /\ spc' = [spc EXCEPT ![i] = "scraped"]
            /\ outcome' = [outcome EXCEPT ![i] = "invalidSource"]
    /\ UNCHANGED <<unit, fetchTimeouts, inputs, batch, activeCount, queue, idx, cur,
                   articles, seenUrls, apc, counters, result>>

\* the listing fetch (axios.get or fetchDynamicContent) and the parse; a
\* failure (network error, timeout, status >= 400, empty rendered HTML) is
\* caught by the outer catch, which returns []
FetchListing(i) ==
    /\ batch = "running"
    /\ spc[i] = "fetchListing"
    /\ \/ /\ spc' = [spc EXCEPT ![i] = "scraped"]
          /\ outcome' = [outcome EXCEPT ![i] = "listingFailed"]
       \/ /\ spc' = [spc EXCEPT ![i] = "loop"]
          /\ UNCHANGED outcome
    /\ UNCHANGED <<unit, fetchTimeouts, inputs, batch, activeCount, queue, idx, cur,
                   articles, seenUrls, apc, counters, result>>

\* a limit test that lets one article too many through
LimitReachedOffByOne(count, lim) == count > lim

\* if (articles.length >= limit) break
LimitReached(count, lim) == count >= lim

\* head of the candidate loop: leave at the limit or at the end of the
\* document (a document has at most MaxCandidates elements), else take the
\* next element, whose link selectBest reads first
LoopHead(i) ==
    /\ batch = "running"
    /\ spc[i] = "loop"
    /\ \/ /\ LimitReached(Len(articles[i]), limit) \/ idx[i] >= MaxCandidates
          /\ spc' = [spc EXCEPT ![i] = "scraped"]
          /\ outcome' = [outcome EXCEPT ![i] = "harvested"]
          /\ UNCHANGED <<idx, cur>>
       \/ /\ ~LimitReached(Len(articles[i]), limit)
          /\ idx[i] < MaxCandidates
          /\ \/ /\ spc' = [spc EXCEPT ![i] = "scraped"]
                /\ outcome' = [outcome EXCEPT ![i] = "harvested"]
                /\ UNCHANGED <<idx, cur>>
             \/ \E link \in RawLinks :
                /\ spc' = [spc EXCEPT ![i] = "candidate"]
                /\ idx' = [idx EXCEPT ![i] = @ + 1]
                /\ cur' = [cur EXCEPT ![i] = [NoCandidate EXCEPT !.link = link]]
                /\ UNCHANGED outcome
    /\ UNCHANGED <<unit, fetchTimeouts, inputs, batch, activeCount, queue,
                   articles, seenUrls, apc, counters, result>>

\* a link check that lets the empty URL through
LinkAcceptedEmpty(url, seen) ==
    (url = "" \/ startsWith(url, "http")) /\ url \notin seen

\* the link check without the seen-URL test
LinkAcceptedNoDedup(url, seen) ==
    url # "" /\ startsWith(url, "http")

\* the link check against one seen-URL set shared by all sources
LinkAcceptedShared(url, seen) ==
    /\ url # ""
    /\ startsWith(url, "http")
    /\ url \notin UNION {seenUrls[j] : j \in DOMAIN sources}

\* the link check of one candidate
LinkAccepted(url, seen) ==
    url # "" /\ startsWith(url, "http") /\ url \notin seen

\* step 1 of the loop body: resolve the link; skip the candidate when the
\* URL is empty, not http, or seen in this harvest
ValidateLink(i) ==
    /\ batch = "running"
    /\ spc[i] = "candidate"
    /\ LET url == resolveUrl(ConfigOf(sources[i]).url, cur[i].link)
       IN  IF LinkAccepted(url, seenUrls[i])
           THEN /\ spc' = [spc EXCEPT ![i] = "extract"]
                /\ cur' = [cur EXCEPT ![i].url = url]
           ELSE /\ spc' = [spc EXCEPT ![i] = "loop"]
                /\ cur' = [cur EXCEPT ![i] = NoCandidate]
    /\ UNCHANGED <<unit, fetchTimeouts, inputs, batch, activeCount, queue, outcome, idx,
                   articles, seenUrls, apc, counters, result>>

\* selectBest throws while a field of the candidate is read (the link in
\* step 1, title, summary, image or date in steps 2 to 5): control goes to
\* the catch block of the loop body
ThrowInCandidate(i) ==
    /\ batch = "running"
    /\ spc[i] \in {"candidate", "extract"}
    /\ spc' = [spc EXCEPT ![i] = "caught"]
    /\ cur' = [cur EXCEPT ![i] = NoCandidate]
    /\ UNCHANGED <<unit, fetchTimeouts, inputs, batch, activeCount, queue,
                   outcome, idx, articles, seenUrls, apc, counters, result>>

\* a loop body without its own catch: the exception reaches the catch
\* block of performScraping, which returns []
CatchCandidateAborts(i) ==
    /\ batch = "running"
    /\ spc[i] = "caught"
    /\ spc' = [spc EXCEPT ![i] = "scraped"]
    /\ outcome' = [outcome EXCEPT ![i] = "listingFailed"]
    /\ articles' = [articles EXCEPT ![i] = <<>>]
    /\ UNCHANGED <<unit, fetchTimeouts, inputs, batch, activeCount, queue,
                   idx, cur, seenUrls, apc, counters, result>>

\* the catch block of the loop body: log the error and the element, then
\* wait(50) and go on with the next element
CatchCandidate(i) ==
    /\ batch = "running"
    /\ spc[i] = "caught"
    /\ spc' = [spc EXCEPT ![i] = "loop"]
    /\ UNCHANGED <<unit, fetchTimeouts, inputs, batch, activeCount, queue,
                   outcome, idx, cur, articles, seenUrls, apc, counters,
                   result>>

\* a title check that lets every candidate through
TitleAcceptedAlways(title) == TRUE

\* the title check of step 2
TitleAccepted(title) == title # ""

\* steps 2 to 5: title (a candidate without one is skipped), summary, which
\* seeds the working content
ExtractCore(i) ==
    /\ batch = "running"
    /\ spc[i] = "extract"
    /\ LET cfg == ConfigOf(sources[i])
       IN  \E title \in Titles, summary \in SummaryTexts(cfg) :
           IF ~TitleAccepted(title)
           THEN /\ spc' = [spc EXCEPT ![i] = "loop"]
                /\ cur' = [cur EXCEPT ![i] = NoCandidate]
           ELSE IF cfg.fetchFullArticle /\ cfg.fullContentSelectors > 0
           THEN /\ spc' = [spc EXCEPT ![i] = "fullFetch"]
                /\ cur' = [cur EXCEPT ![i].title = title,
                                      ![i].summary = summary,
                                      ![i].content = summary]
           ELSE /\ spc' = [spc EXCEPT ![i] = "validate"]
                /\ cur' = [cur EXCEPT ![i].title = title,
                             ![i].summary = summary,
                             ![i].content =
                                slice(cleanContentLen(summary), ContentCap)]
    /\ UNCHANGED <<unit, fetchTimeouts, inputs, batch, activeCount, queue, outcome, idx,
                   articles, seenUrls, apc, counters, result>>

\* a step that also replaces the content by a fetched text of equal length
ContentAfterFetchNotStrict(content, fetched, fullContentText) ==
    IF fetched /\ fullContentText.len > 0 /\ fullContentText.len >= content.len
    THEN slice(cleanContentLen(fullContentText), ContentCap)
    ELSE slice(cleanContentLen(content), ContentCap)

\* a fallback that keeps the working content as it is
ContentAfterFetchRaw(content, fetched, fullContentText) ==
    IF fetched /\ fullContentText.len > 0 /\ fullContentText.len > content.len
    THEN slice(cleanContentLen(fullContentText), ContentCap)
    ELSE IF fetched THEN slice(cleanContentLen(content), ContentCap)
    ELSE content

\* the working content after the full-article step
ContentAfterFetch(content, fetched, fullContentText) ==
    IF fetched /\ fullContentText.len > 0 /\ fullContentText.len > content.len
    THEN slice(cleanContentLen(fullContentText), ContentCap)
    ELSE slice(cleanContentLen(content), ContentCap)

\* step 6: fetch the article's own page; every outcome but "ok" is a throw
\* inside the try block, which the inner catch absorbs
FetchFullArticle(i) ==
    /\ batch = "running"
    /\ spc[i] = "fullFetch"
    /\ \E fetch \in FetchOutcomes, fullContentText \in Texts :
          cur' = [cur EXCEPT ![i].content =
                     ContentAfterFetch(cur[i].content, fetch = "ok",
                                       fullContentText),
                             ![i].fetch = fetch]
    /\ spc' = [spc EXCEPT ![i] = "validate"]
    /\ UNCHANGED <<unit, fetchTimeouts, inputs, batch, activeCount, queue, outcome, idx,
                   articles, seenUrls, apc, counters, result>>

\* the final validation with the comparison off by one
ContentAcceptedOffByOne(content) ==
    content.len # 0 /\ ~(content.len <= MinContentLength)

\* the final validation of step 7
ContentAccepted(content) ==
    content.len # 0 /\ ~(content.len < MinContentLength)

NewsArticle(i, c) ==
    [title |-> c.title, url |-> c.url, content |-> c.content,
     source |-> ConfigOf(sources[i]).sourceName]

\* an Emit that forgets to mark the URL
MarkSeenNever(seen, url) == seen

\* seenUrls.add(finalArticle.url)
MarkSeen(seen, url) == seen \cup {url}

\* steps 7 and 8: validate, (no registry entry has a postprocess hook,)
\* push and mark the URL seen
ValidateEmit(i) ==
    /\ batch = "running"
    /\ spc[i] = "validate"
    /\ IF ContentAccepted(cur[i].content)
       THEN /\ articles' = [articles EXCEPT ![i] = Append(@, NewsArticle(i, cur[i]))]
            /\ seenUrls' = [seenUrls EXCEPT ![i] = MarkSeen(@, cur[i].url)]
            /\ fetchTimeouts' = IF cur[i].fetch = "timeout"
                                THEN fetchTimeouts \cup {cur[i].url}
                                ELSE fetchTimeouts
       ELSE UNCHANGED <<articles, seenUrls, fetchTimeouts>>
    /\ spc' = [spc EXCEPT ![i] = "loop"]
    /\ cur' = [cur EXCEPT ![i] = NoCandidate]
    /\ UNCHANGED <<unit, inputs, batch, activeCount, queue, outcome, idx,
                   apc, counters, result>>

\* ------------------------------------- scrapeAndStoreArticles, continued
Settled(st) == st \in {"stored", "failed"}

\* a count that overwrites the total instead of adding to it
CountScrapedOverwrite(total, arts) == Len(arts)

\* totalArticlesScraped += articles.length
CountScraped(total, arts) == total + Len(arts)

\* the source task after performScraping returned: count the articles and
\* submit one summarize+store task per article to overallLimit
Dispatch(i) ==
    /\ batch = "running"
    /\ spc[i] = "scraped"
    /\ totalArticlesScraped' = CountScraped(totalArticlesScraped, articles[i])
    /\ Limiter(activeCount,
               queue \o [k \in 1..Len(articles[i]) |-> ArtTask(i, k)],
               [spc EXCEPT ![i] = "awaitArticles"],
               [apc EXCEPT ![i] = [k \in 1..Len(articles[i]) |-> "queued"]])
    /\ UNCHANGED <<unit, fetchTimeouts, inputs, batch, harvestVars, processedCount, allErrors, result>>

\* an article task that reports a failure without the article's URL
ArticleErrorUntagged(a, what) ==
    [source |-> a.source,
     message |-> "Error processing article \"" \o a.title \o "\" ("
                 \o a.url \o "): " \o what,
     url |-> ""]

\* the entry the article task's catch pushes
ArticleError(a, what) ==
    [source |-> a.source,
     message |-> "Error processing article \"" \o a.title \o "\" ("
                 \o a.url \o "): " \o what,
     url |-> a.url]

\* an article task that calls storeArticle although summarizeArticle threw
SummarizeThenStore(i, k) ==
    /\ batch = "running"
    /\ k \in DOMAIN apc[i]
    /\ apc[i][k] = "summarize"
    /\ apc' = [apc EXCEPT ![i][k] = "store"]
    /\ \/ UNCHANGED allErrors
       \/ allErrors' = Append(allErrors,
                              ArticleError(articles[i][k], "summarize failed"))
    /\ UNCHANGED <<unit, fetchTimeouts, inputs, batch, harvestVars,
                   activeCount, queue, spc, totalArticlesScraped,
                   processedCount, result>>

\* summarizeArticle settles: on success the task goes on to storeArticle,
\* on failure the catch records the error and the task ends
Summarize(i, k) ==
    /\ batch = "running"
    /\ k \in DOMAIN apc[i]
    /\ apc[i][k] = "summarize"
    /\ \/ /\ apc' = [apc EXCEPT ![i][k] = "store"]
          /\ UNCHANGED <<activeCount, queue, spc, allErrors>>
       \/ /\ allErrors' = Append(allErrors,
                                 ArticleError(articles[i][k], "summarize failed"))
          /\ Limiter(activeCount - 1, queue, spc, [apc EXCEPT ![i][k] = "failed"])
    /\ UNCHANGED <<unit, fetchTimeouts, inputs, batch, harvestVars, totalArticlesScraped,
                   processedCount, result>>

\* an article task that counts the article although storeArticle threw
StoreCountsFailure(i, k) ==
    /\ batch = "running"
    /\ k \in DOMAIN apc[i]
    /\ apc[i][k] = "store"
    /\ processedCount' = processedCount + 1
    /\ \/ /\ Limiter(activeCount - 1, queue, spc, [apc EXCEPT ![i][k] = "stored"])
          /\ UNCHANGED allErrors
       \/ /\ allErrors' = Append(allErrors,
                                 ArticleError(articles[i][k],
                                              "Failed to store article data"))
          /\ Limiter(activeCount - 1, queue, spc, [apc EXCEPT ![i][k] = "failed"])
    /\ UNCHANGED <<unit, fetchTimeouts, inputs, batch, harvestVars, totalArticlesScraped, result>>

\* storeArticle settles
Store(i, k) ==
    /\ batch = "running"
    /\ k \in DOMAIN apc[i]
    /\ apc[i][k] = "store"
    /\ \/ /\ processedCount' = processedCount + 1
          /\ Limiter(activeCount - 1, queue, spc, [apc EXCEPT ![i][k] = "stored"])
          /\ UNCHANGED allErrors
       \/ /\ allErrors' = Append(allErrors,
                                 ArticleError(articles[i][k],
                                              "Failed to store article data"))
          /\ Limiter(activeCount - 1, queue, spc, [apc EXCEPT ![i][k] = "failed"])
          /\ UNCHANGED processedCount
    /\ UNCHANGED <<unit, fetchTimeouts, inputs, batch, harvestVars, totalArticlesScraped, result>>

\* Promise.all(processingPromises) resolves: the source task ends and
\* gives its slot back
SourceSettle(i) ==
    /\ batch = "running"
    /\ spc[i] = "awaitArticles"
    /\ \A k \in DOMAIN apc[i] : Settled(apc[i][k])
    /\ Limiter(activeCount - 1, queue, [spc EXCEPT ![i] = "done"], apc)
    /\ UNCHANGED <<unit, fetchTimeouts, inputs, batch, harvestVars, counters, result>>

\* errors: allErrors.map(e => `[${e.source}] ${e.message}${e.url ? ...}`)
FormatError(e) ==
    "[" \o e.source \o "] " \o e.message
        \o (IF e.url # "" THEN " (URL: " \o e.url \o ")" ELSE "")

\* a rate without the test for an empty source list
successRateNoSourcesTest(processed, scraped, nSources) ==
    IF scraped > 0 THEN Ratio(processed, scraped) ELSE Ratio(0, 1)

\* totalArticlesScraped > 0 ? processedCount / totalArticlesScraped
\*                          : (sources.length > 0 ? 0 : 1)
successRate(processed, scraped, nSources) ==
    IF scraped > 0 THEN Ratio(processed, scraped)
    ELSE IF nSources > 0 THEN Ratio(0, 1) ELSE Ratio(1, 1)

\* Math.min(1, r)
MathMin1(r) == IF r.num > r.den THEN Ratio(1, 1) ELSE r

\* a result whose success flag looks at the processed count
ScrapeResultByCount(errs, processed, nSources, scraped) ==
    [success |-> processed > 0,
     processedCount |-> processed,
     sourcesAttempted |-> nSources,
     articlesScraped |-> scraped,
     errors |-> [n \in DOMAIN errs |-> FormatError(errs[n])],
     successRate |-> MathMin1(successRate(processed, scraped, nSources))]

\* a result that is a success only when something was harvested
ScrapeResultNeedsArticles(errs, processed, nSources, scraped) ==
    [success |-> Len(errs) = 0 /\ scraped > 0,
     processedCount |-> processed,
     sourcesAttempted |-> nSources,
     articlesScraped |-> scraped,
     errors |-> [n \in DOMAIN errs |-> FormatError(errs[n])],
     successRate |-> MathMin1(successRate(processed, scraped, nSources))]

ScrapeResult(errs, processed, nSources, scraped) ==
    [success |-> Len(errs) = 0,
     processedCount |-> processed,
     sourcesAttempted |-> nSources,
     articlesScraped |-> scraped,
     errors |-> [n \in DOMAIN errs |-> FormatError(errs[n])],
     successRate |-> MathMin1(successRate(processed, scraped, nSources))]

\* a join that is over as soon as one source task has settled
AllSettledRace(sp) == \E i \in DOMAIN sp : sp[i] = "done"

\* await Promise.all(scrapingPromises): every source task has settled
AllSettled(sp) == \A i \in DOMAIN sp : sp[i] = "done"

\* Promise.all(scrapingPromises) resolves: build and return the result
Return ==
    /\ batch = "running"
    /\ AllSettled(spc)
    /\ batch' = "returned"
    /\ result' = ScrapeResult(allErrors, processedCount, Len(sources),
                              totalArticlesScraped)
    /\ UNCHANGED <<unit, fetchTimeouts, inputs, activeCount, queue, spc, apc, harvestVars, counters>>

Next ==
    \/ Invoke
    \/ \E i \in DOMAIN sources : ResolveConfig(i)
    \/ \E i \in DOMAIN sources : FetchListing(i)
    \/ \E i \in DOMAIN sources : LoopHead(i)
    \/ \E i \in DOMAIN sources : ValidateLink(i)
    \/ \E i \in DOMAIN sources : ThrowInCandidate(i)
    \/ \E i \in DOMAIN sources : CatchCandidate(i)
    \/ \E i \in DOMAIN sources : ExtractCore(i)
    \/ \E i \in DOMAIN sources : FetchFullArticle(i)
    \/ \E i \in DOMAIN sources : ValidateEmit(i)
    \/ \E i \in DOMAIN sources : Dispatch(i)
    \/ \E i \in DOMAIN sources : \E k \in 1..MaxLimit : Summarize(i, k)
    \/ \E i \in DOMAIN sources : \E k \in 1..MaxLimit : Store(i, k)
    \/ \E i \in DOMAIN sources : SourceSettle(i)
    \/ Return

Spec == Init /\ [][Next]_vars

\* a batch over exactly one source: what one harvest and its article tasks
\* do, for every limit and concurrency value
InitOneSource == Init /\ Len(sources) = 1

SpecOneSource == InitOneSource /\ [][Next]_vars

\* a batch over two different sources (a registry key and a bare URL) with
\* one slot, so that the second source task waits, or with a slot for each,
\* so that the two harvests run side by side
InitPair ==
    /\ Init
    /\ sources = <<"CNN", "https://www.bbc.com/news">>
    /\ concurrency \in 1..2

SpecPair == InitPair /\ [][Next]_vars

\* a batch over no source or one source
InitAtMostOneSource == Init /\ Len(sources) <= 1

SpecAtMostOneSource == InitAtMostOneSource /\ [][Next]_vars

\* a batch over two different sources, one article of each, with one slot
\* more than there are sources, so that the article task of one source runs
\* beside the harvest or the article task of the other
InitSpare ==
    /\ Init
    /\ sources = <<"CNN", "https://www.bbc.com/news">>
    /\ limit = 1
    /\ concurrency = 3

SpecSpare == InitSpare /\ [][Next]_vars

\* ------------------------------------------- helper functions on their own
\* no batch runs while a helper function is looked at on its own
NoBatch ==
    /\ sources = <<>>
    /\ limit = 0
    /\ concurrency = 1
    /\ batch = "idle"
    /\ activeCount = 0
    /\ queue = <<>>
    /\ spc = <<>>
    /\ outcome = <<>>
    /\ idx = <<>>
    /\ cur = <<>>
    /\ articles = <<>>
    /\ seenUrls = <<>>
    /\ apc = <<>>
    /\ totalArticlesScraped = 0
    /\ processedCount = 0
    /\ allErrors = <<>>
    /\ result = NoResult
    /\ fetchTimeouts = {}

\* ---------------------------------------------------- fetchDynamicContent
\* One call after another of fetchDynamicContent(url, waitForSelector).
\*   pc       the await the call is at, "catch" for the catch block,
\*            "returned" once the promise is settled
\*   browser  the local variable: "unset" before launch() resolved, else
\*            the state of the launched browser, "open" or "closed"
\*   closes   the browser.close() calls of this call, "ok" or "threw" each
\*   html     the value returned: "page" for page.content(), "" for ''
\*   leaked   browsers that earlier calls left open
\*   call     the number of this call
\* A step either resolves or throws. A close() that throws leaves the
\* browser open or closed: the code cannot tell which.
PageSteps == <<"newPage", "setViewport", "setUserAgent", "goto", "wait">>

StepAfter(pc) ==
    IF pc = "newPage" THEN "setViewport"
    ELSE IF pc = "setViewport" THEN "setUserAgent"
    ELSE IF pc = "setUserAgent" THEN "goto"
    ELSE IF pc = "goto" THEN "wait"
    ELSE "content"

FetchCall(n, leaked, waitForSelector) ==
    [fn |-> "fetchDynamicContent", call |-> n, leaked |-> leaked,
     waitForSelector |-> waitForSelector, pc |-> "launch",
     browser |-> "unset", closes |-> <<>>, html |-> "none"]

InFetch == unit.fn = "fetchDynamicContent"

InitFetchDynamicContent ==
    /\ NoBatch
    /\ \E w \in BOOLEAN : unit = FetchCall(1, 0, w)

\* browser = await puppeteer.launch(...)
FdcLaunch ==
    /\ InFetch /\ unit.pc = "launch"
    /\ \/ unit' = [unit EXCEPT !.browser = "open", !.pc = "newPage"]
       \/ unit' = [unit EXCEPT !.pc = "catch"]
    /\ UNCHANGED batchVars

\* newPage, setViewport, setUserAgent, goto, and the wait after it: a
\* waitForSelector that throws is caught on the spot, a waitForTimeout that
\* throws is not
FdcPageStep ==
    /\ InFetch /\ unit.pc \in {PageSteps[k] : k \in DOMAIN PageSteps}
    /\ \/ unit' = [unit EXCEPT !.pc = StepAfter(unit.pc)]
       \/ /\ unit.pc = "wait" => ~unit.waitForSelector
          /\ unit' = [unit EXCEPT !.pc = "catch"]
       \/ /\ unit.pc = "wait" /\ unit.waitForSelector
          /\ unit' = [unit EXCEPT !.pc = "content"]
    /\ UNCHANGED batchVars

\* const content = await page.content()
FdcContent ==
    /\ InFetch /\ unit.pc = "content"
    /\ \/ unit' = [unit EXCEPT !.html = "page", !.pc = "close"]
       \/ unit' = [unit EXCEPT !.pc = "catch"]
    /\ UNCHANGED batchVars

\* await browser.close() of the try block, then return content
FdcClose ==
    /\ InFetch /\ unit.pc = "close"
    /\ \/ unit' = [unit EXCEPT !.browser = "closed",
                               !.closes = Append(@, "ok"),
                               !.pc = "returned"]
       \/ \E left \in {"open", "closed"} :
             unit' = [unit EXCEPT !.browser = left,
                                  !.closes = Append(@, "threw"),
                                  !.html = "none",
                                  !.pc = "catch"]
    /\ UNCHANGED batchVars

\* a catch block that leaves the browser alone
CatchNeverCloses(browser) == FALSE

\* if (browser) of the catch block
CatchCloses(browser) == browser # "unset"

\* the catch block: close the browser if there is one, return ''
FdcCatch ==
    /\ InFetch /\ unit.pc = "catch"
    /\ IF CatchCloses(unit.browser)
       THEN \/ unit' = [unit EXCEPT !.browser = "closed",
                                    !.closes = Append(@, "ok"),
                                    !.html = "", !.pc = "returned"]
            \/ \E left \in {"open", "closed"} :
                  unit' = [unit EXCEPT !.browser = left,
                                       !.closes = Append(@, "threw"),
                                       !.html = "", !.pc = "returned"]
       ELSE unit' = [unit EXCEPT !.html = "", !.pc = "returned"]
    /\ UNCHANGED batchVars

\* the next call: `browser` is a local of the call before, so whatever that
\* call left open stays open
FdcNextCall ==
    /\ InFetch /\ unit.pc = "returned"
    /\ unit.call < MaxFetches
    /\ \E w \in BOOLEAN :
          unit' = FetchCall(unit.call + 1,
                            unit.leaked +
                                (IF unit.browser = "open" THEN 1 ELSE 0),
                            w)
    /\ UNCHANGED batchVars

NextFetchDynamicContent ==
    \/ FdcLaunch
    \/ FdcPageStep
    \/ FdcContent
    \/ FdcClose
    \/ FdcCatch
    \/ FdcNextCall

SpecFetchDynamicContent ==
    InitFetchDynamicContent /\ [][NextFetchDynamicContent]_vars

\* ------------------------------- encodeBase64UrlSafe, decodeBase64UrlSafe
\* the characters the URLs are made of, and their UTF-8 bytes (one each:
\* URL.toString() yields ASCII)
UrlChars == {"a", "/", "?", "~"}

\* the printable ASCII characters, from code 32 to code 126; a space stands
\* in the place of the grave accent (code 96), which no URL has
Ascii ==
    " !\"#$%&'()*+,-./0123456789:;<=>?@ABCDEFGHIJKLMNOPQRSTUVWXYZ[\\]^_ abcdefghijklmnopqrstuvwxyz{|}~"

CodeOf ==
    [c \in {SubSeq(Ascii, k, k) : k \in 1..Len(Ascii)} |->
        31 + IndexFrom(Ascii, c, 1)]

CharCode(c) == CodeOf[c]

RECURSIVE StringsOfLen(_, _)
StringsOfLen(chars, n) ==
    IF n = 0 THEN {""}
    ELSE {s \o c : s \in StringsOfLen(chars, n - 1), c \in chars}

StringsUpTo(chars, n) == UNION {StringsOfLen(chars, m) : m \in 0..n}

\* Buffer.from(str): the bytes of the string
BufferFrom(str) == [k \in 1..Len(str) |-> CharCode(SubSeq(str, k, k))]

Base64Alphabet ==
    "ABCDEFGHIJKLMNOPQRSTUVWXYZabcdefghijklmnopqrstuvwxyz0123456789+/"

Base64Char(v) == SubSeq(Base64Alphabet, v + 1, v + 1)

\* buf.toString('base64'): three bytes make four characters, a last group
\* of one or two bytes is padded with '='
RECURSIVE toBase64(_)
toBase64(bytes) ==
    IF Len(bytes) = 0 THEN ""
    ELSE IF Len(bytes) = 1
    THEN Base64Char(bytes[1] \div 4) \o Base64Char((bytes[1] % 4) * 16)
         \o "=="
    ELSE IF Len(bytes) = 2
    THEN Base64Char(bytes[1] \div 4)
         \o Base64Char((bytes[1] % 4) * 16 + bytes[2] \div 16)
         \o Base64Char((bytes[2] % 16) * 4) \o "="
    ELSE Base64Char(bytes[1] \div 4)
         \o Base64Char((bytes[1] % 4) * 16 + bytes[2] \div 16)
         \o Base64Char((bytes[2] % 16) * 4 + bytes[3] \div 64)
         \o Base64Char(bytes[3] % 64)
         \o toBase64(SubSeq(bytes, 4, Len(bytes)))

\* str.replace(/c/g, by) for a single character c
RECURSIVE replaceChar(_, _, _)
replaceChar(str, c, by) ==
    IF str = "" THEN ""
    ELSE (IF SubSeq(str, 1, 1) = c THEN by ELSE SubSeq(str, 1, 1))
         \o replaceChar(SubSeq(str, 2, Len(str)), c, by)

\* str.replace(/=+$/, '')
RECURSIVE stripPadding(_)
stripPadding(str) ==
    IF str # "" /\ SubSeq(str, Len(str), Len(str)) = "="
    THEN stripPadding(SubSeq(str, 1, Len(str) - 1))
    ELSE str

\* an encoder that keeps the padding
encodeKeepPadding(str) ==
    replaceChar(replaceChar(toBase64(BufferFrom(str)), "+", "-"), "/", "_")

encodeBase64UrlSafe(str) ==
    stripPadding(
        replaceChar(replaceChar(toBase64(BufferFrom(str)), "+", "-"),
                    "/", "_"))

\* while (str.length % 4) str += '='
RECURSIVE padToFour(_)
padToFour(str) == IF Len(str) % 4 = 0 THEN str ELSE padToFour(str \o "=")

\* the value of a base64 character; Node's decoder reads the URL-safe
\* characters as well
Base64Value(c) ==
    IF c = "-" THEN 62
    ELSE IF c = "_" THEN 63
    ELSE CHOOSE v \in 0..63 : Base64Char(v) = c

\* Buffer.from(str, 'base64') for a padded string
RECURSIVE fromBase64(_)
fromBase64(str) ==
    IF Len(str) < 4 THEN <<>>
    ELSE LET v1 == Base64Value(SubSeq(str, 1, 1))
             v2 == Base64Value(SubSeq(str, 2, 2))
             c3 == SubSeq(str, 3, 3)
             c4 == SubSeq(str, 4, 4)
             b1 == v1 * 4 + v2 \div 16
         IN  IF c3 = "=" THEN <<b1>>
             ELSE LET v3 == Base64Value(c3)
                      b2 == (v2 % 16) * 16 + v3 \div 4
                  IN  IF c4 = "=" THEN <<b1, b2>>
                      ELSE <<b1, b2, (v3 % 4) * 64 + Base64Value(c4)>>
                           \o fromBase64(SubSeq(str, 5, Len(str)))

\* buf.toString('utf8'); a byte that is none of UrlChars is shown as "*"
RECURSIVE toStringUtf8(_)
toStringUtf8(bytes) ==
    IF Len(bytes) = 0 THEN ""
    ELSE (IF \E c \in UrlChars : CharCode(c) = bytes[1]
          THEN CHOOSE c \in UrlChars : CharCode(c) = bytes[1]
          ELSE "*")
         \o toStringUtf8(SubSeq(bytes, 2, Len(bytes)))

decodeBase64UrlSafe(str) ==
    toStringUtf8(
        fromBase64(padToFour(replaceChar(replaceChar(str, "-", "+"),
                                         "_", "/"))))

\* the ids of two article URLs:
\*   u, v      the URLs
\*   pc        "args" before, "done" after the calls
\*   idU, idV  encodeBase64UrlSafe of u and of v
\*   back      decodeBase64UrlSafe(idU)
InBase64 == unit.fn = "base64"

InitBase64 ==
    /\ NoBatch
    /\ \E u \in StringsUpTo(UrlChars, MaxUrlLen),
          v \in StringsUpTo(UrlChars, MaxOtherUrlLen) :
          unit = [fn |-> "base64", u |-> u, v |-> v, pc |-> "args",
                  idU |-> "", idV |-> "", back |-> ""]

EncodeIds ==
    /\ InBase64 /\ unit.pc = "args"
    /\ unit' = [unit EXCEPT !.idU = encodeBase64UrlSafe(unit.u),
                            !.idV = encodeBase64UrlSafe(unit.v),
                            !.pc = "encoded"]
    /\ UNCHANGED batchVars

DecodeId ==
    /\ InBase64 /\ unit.pc = "encoded"
    /\ unit' = [unit EXCEPT !.back = decodeBase64UrlSafe(unit.idU),
                            !.pc = "done"]
    /\ UNCHANGED batchVars

NextBase64 == EncodeIds \/ DecodeId

SpecBase64 == InitBase64 /\ [][NextBase64]_vars

\* ------------------------------------------------------------ cleanContent
\* cleanContent on the characters of a text (cleanContentLen above keeps
\* only the lengths the batch looks at)
UpperCase == "ABCDEFGHIJKLMNOPQRSTUVWXYZ"
LowerCase == "abcdefghijklmnopqrstuvwxyz"

LowerCaseOf ==
    [c \in {SubSeq(UpperCase, k, k) : k \in 1..26} |->
        SubSeq(LowerCase, IndexFrom(UpperCase, c, 1),
               IndexFrom(UpperCase, c, 1))]

\* the `i` flag of a pattern: both sides are compared in lower case
RECURSIVE toLowerCase(_)
toLowerCase(s) ==
    IF s = "" THEN ""
    ELSE (IF SubSeq(s, 1, 1) \in DOMAIN LowerCaseOf
          THEN LowerCaseOf[SubSeq(s, 1, 1)]
          ELSE SubSeq(s, 1, 1))
         \o toLowerCase(SubSeq(s, 2, Len(s)))

\* position of the first occurrence of p in s at or after from, 0 when
\* there is none; the empty p is found at from
RECURSIVE search(_, _, _)
search(s, p, from) ==
    IF from + Len(p) - 1 > Len(s) THEN 0
    ELSE IF SubSeq(s, from, from + Len(p) - 1) = p THEN from
    ELSE search(s, p, from + 1)

\* s.replace(/open[^>]*mid(.*?)close/g, by) for the patterns of
\* cleanContent, where mid is '>' or empty: the leftmost `open`, the first
\* `mid` after it, the first `close` after that; the search goes on behind
\* the match. ls is the text the pattern is looked up in: s itself, or s in
\* lower case for a pattern with the `i` flag. When the leftmost `open` has
\* no match, no later one has.
RECURSIVE replaceSpans(_, _, _, _, _, _)
replaceSpans(s, ls, open, mid, close, by) ==
    LET at == search(ls, open, 1)
        gt == IF at = 0 THEN 0 ELSE search(ls, mid, at + Len(open))
        end == IF gt = 0 THEN 0 ELSE search(ls, close, gt + Len(mid))
        next == end + Len(close)
    IN  IF end = 0 THEN s
        ELSE SubSeq(s, 1, at - 1) \o by
             \o replaceSpans(SubSeq(s, next, Len(s)),
                             SubSeq(ls, next, Len(ls)),
                             open, mid, close, by)

LineBreaks == {"\n", "\t", "\r"}
WhiteSpace == {" ", "\n", "\t", "\r", "\f"}

\* length of the run of characters of cs that s starts with
RECURSIVE runLength(_, _)
runLength(s, cs) ==
    IF s # "" /\ SubSeq(s, 1, 1) \in cs
    THEN 1 + runLength(SubSeq(s, 2, Len(s)), cs)
    ELSE 0

\* s.replace(/[cs]{least,}/g, ' ')
RECURSIVE replaceRuns(_, _, _)
replaceRuns(s, cs, least) ==
    IF s = "" THEN ""
    ELSE LET n == runLength(s, cs)
         IN  IF n >= least
             THEN " " \o replaceRuns(SubSeq(s, n + 1, Len(s)), cs, least)
             ELSE SubSeq(s, 1, 1)
                  \o replaceRuns(SubSeq(s, 2, Len(s)), cs, least)

RECURSIVE trimStart(_)
trimStart(s) ==
    IF s # "" /\ SubSeq(s, 1, 1) \in WhiteSpace
    THEN trimStart(SubSeq(s, 2, Len(s)))
    ELSE s

RECURSIVE trimEnd(_)
trimEnd(s) ==
    IF s # "" /\ SubSeq(s, Len(s), Len(s)) \in WhiteSpace
    THEN trimEnd(SubSeq(s, 1, Len(s) - 1))
    ELSE s

trim(s) == trimEnd(trimStart(s))

cleanContent(text) ==
    IF text = "" THEN ""
    ELSE LET noScript == replaceSpans(text, toLowerCase(text),
                                      "<script", ">", "</script>", "")
             noStyle == replaceSpans(noScript, toLowerCase(noScript),
                                     "<style", ">", "</style>", "")
             noComment == replaceSpans(noStyle, noStyle,
                                       "<!--", "", "-->", "")
             noTag == replaceSpans(noComment, noComment, "<", "", ">", " ")
             noBreak == replaceRuns(noTag, LineBreaks, 1)
             oneSpace == replaceRuns(noBreak, WhiteSpace, 2)
             noAd == replaceSpans(oneSpace, toLowerCase(oneSpace),
                                  "advertisement", "", "", "")
             noShare == replaceSpans(noAd, toLowerCase(noAd),
                                     "share this story", "", "", "")
         IN  trim(noShare)

\* the pieces the texts are put together from
TextPieces ==
    {"a", " ", "\n", "<", ">", "Advertisement", " Advertisement ",
     "share THIS story", "<script>", "</SCRIPT>", "<style x>", "</style>",
     "<!--", "-->"}

RECURSIVE PiecesOfLen(_)
PiecesOfLen(n) ==
    IF n = 0 THEN {""}
    ELSE {s \o p : s \in PiecesOfLen(n - 1), p \in TextPieces}

\* cleanContent applied to a text and again to its result:
\*   text   the argument
\*   pc     "args", "once", "twice"
\*   once   cleanContent(text)
\*   twice  cleanContent(once)
InCleanContent == unit.fn = "cleanContent"

InitCleanContent ==
    /\ NoBatch
    /\ \E t \in UNION {PiecesOfLen(n) : n \in 0..MaxPieces} :
          unit = [fn |-> "cleanContent", text |-> t, pc |-> "args",
                  once |-> "", twice |-> ""]

CleanOnce ==
    /\ InCleanContent /\ unit.pc = "args"
    /\ unit' = [unit EXCEPT !.once = cleanContent(unit.text),
                            !.pc = "once"]
    /\ UNCHANGED batchVars

CleanAgain ==
    /\ InCleanContent /\ unit.pc = "once"
    /\ unit' = [unit EXCEPT !.twice = cleanContent(unit.once),
                            !.pc = "twice"]
    /\ UNCHANGED batchVars

NextCleanContent == CleanOnce \/ CleanAgain

SpecCleanContent == InitCleanContent /\ [][NextCleanContent]_vars

\* -------------------------------------------------------------- resolveUrl
\* the bases: two listing URLs of the registry, a URL of another scheme,
\* and three strings that new URL() does not take
Bases ==
    {"https://www.bbc.com/news", "https://www.cnn.com/",
     "ftp://files.example/pub", "www.bbc.com/news", "", "https://"}

\* the links of a listing page: empty, relative, absolute with http(s),
\* absolute with a scheme that starts with "http", absolute with another
\* scheme, and one that new URL() does not take
Candidates ==
    {"", "/a", "a", "#top", "?page=2", "//cdn.example/a",
     "https://www.bbc.com/a", "http://example.org",
     "httpx://evil.example/a", "https-archive:2020",
     "ftp://files.example/a", "mailto:desk@example.org",
     "javascript:void(0)", "data:text/html,x", "https://"}

\* resolveUrl(baseUrl, relativeUrl) on its own:
\*   baseUrl, relativeUrl  the arguments; relativeUrl is undefined when
\*                         defined is FALSE
\*   pc                    "args" before the call, "returned" or "threw"
\*   out                   the string returned
InResolveUrl == unit.fn = "resolveUrl"

InitResolveUrl ==
    /\ NoBatch
    /\ \E b \in Bases, d \in BOOLEAN, c \in Candidates :
          /\ ~d => c = ""
          /\ unit = [fn |-> "resolveUrl", baseUrl |-> b, defined |-> d,
                     relativeUrl |-> c, pc |-> "args", out |-> ""]

\* `!relativeUrl` is true of undefined and of ''; everything after it is
\* inside the try block, whose catch returns ''
CallResolveUrl ==
    /\ InResolveUrl /\ unit.pc = "args"
    /\ unit' = [unit EXCEPT
                   !.out = IF ~unit.defined THEN ""
                           ELSE resolveUrl(unit.baseUrl, unit.relativeUrl),
                   !.pc = "returned"]
    /\ UNCHANGED batchVars

\* the caller takes the next pair
NextPair ==
    /\ InResolveUrl /\ unit.pc = "returned"
    /\ \E b \in Bases, c \in Candidates :
          unit' = [fn |-> "resolveUrl", baseUrl |-> b, defined |-> TRUE,
                   relativeUrl |-> c, pc |-> "args", out |-> ""]
    /\ UNCHANGED batchVars

NextResolveUrl == CallResolveUrl \/ NextPair

SpecResolveUrl == InitResolveUrl /\ [][NextResolveUrl]_vars

\* ------------------------------------------------- the full-article step
\* step 6 of the loop body as a function of what it reads: whether the
\* fetch is configured, the working content (the summary), how the fetch
\* ended and the text selectBest found on the article's page
fullArticleStep(configured, content, fetch, fullContentText) ==
    IF configured
    THEN ContentAfterFetch(content, fetch = "ok", fullContentText)
    ELSE slice(cleanContentLen(content), ContentCap)

\* step 6 on its own:
\*   configured       fetchFullArticle is set and there are selectors
\*   summary          the working content when the step begins
\*   fetch            how the fetch ends
\*   fullContentText  the text of the fetched page
\*   pc               "args" before, "done" after the step
\*   content          article.content after the step
InFullArticleStep == unit.fn = "fullArticleStep"

InitFullArticleStep ==
    /\ NoBatch
    /\ \E c \in BOOLEAN, s \in Texts, f \in FetchOutcomes, t \in Texts :
          unit = [fn |-> "fullArticleStep", configured |-> c, summary |-> s,
                  fetch |-> f, fullContentText |-> t, pc |-> "args",
                  content |-> s]

DoFullArticleStep ==
    /\ InFullArticleStep /\ unit.pc = "args"
    /\ unit' = [unit EXCEPT
                   !.content = fullArticleStep(unit.configured, unit.summary,
                                               unit.fetch,
                                               unit.fullContentText),
                   !.pc = "done"]
    /\ UNCHANGED batchVars

\* the next candidate reaches step 6
NextCandidateStep ==
    /\ InFullArticleStep /\ unit.pc = "done"
    /\ \E c \in BOOLEAN, s \in Texts, f \in FetchOutcomes, t \in Texts :
          unit' = [fn |-> "fullArticleStep", configured |-> c, summary |-> s,
                   fetch |-> f, fullContentText |-> t, pc |-> "args",
                   content |-> s]
    /\ UNCHANGED batchVars

NextFullArticleStep == DoFullArticleStep \/ NextCandidateStep

SpecFullArticleStep == InitFullArticleStep /\ [][NextFullArticleStep]_vars

\* --------------------------------------------- the fetches of one harvest
\* The listing fetch and the full-article fetches of performScraping for a
\* configuration of any shape the ScrapingConfig type allows:
\*   cfg      useDynamicContent, fetchFullArticle, the number of
\*            fullContent selectors, rateLimitMs (0 when not set)
\*   pc       "listing", "candidate" (head of the loop), "limiter" (inside
\*            limitFullArticleFetch, before the delay), "fetch", "returned"
\*   n        candidates taken so far
\*   log      what was awaited, in order: "listing.rendered",
\*            "listing.direct", "wait", "article.rendered", "article.direct"
\*   listing  how the listing fetch ended
\*   fetch    how the last full-article fetch ended, "none" before it
\*   summary  the working content of the candidate when step 6 begins
\*   content  its content after step 6
\*   returned "none", "[]" from the outer catch, "articles" from line 693
FetchConfigs ==
    [useDynamicContent : BOOLEAN, fetchFullArticle : BOOLEAN,
     fullContentSelectors : {0, 4}, rateLimitMs : {0, 1200}]

\* fetchDynamicContent resolves with the page or with ''; axios.get
\* resolves with the page or throws (network error, timeout, status)
ListingOutcomes(cfg) ==
    IF cfg.useDynamicContent THEN {"ok", "empty"} ELSE {"ok", "httpError"}

\* an article page fetched with axios can also have an empty body
ArticleOutcomes(cfg) ==
    IF cfg.useDynamicContent THEN {"ok", "empty"}
    ELSE {"ok", "httpError", "empty"}

\* a harvest that fetches every article page with axios
ArticleFetchAlwaysDirect(cfg) == "direct"

\* if (config.useDynamicContent) fetchDynamicContent(...) else axios.get(...)
ArticleFetchStrategy(cfg) ==
    IF cfg.useDynamicContent THEN "rendered" ELSE "direct"

ListingFetchStrategy(cfg) ==
    IF cfg.useDynamicContent THEN "rendered" ELSE "direct"

\* a listing step that goes on with an empty rendered page
ListingFailedHttpOnly(how) == how = "httpError"

\* `if (!html) throw` after fetchDynamicContent, and the throw of axios.get:
\* both leave the try block for the outer catch
ListingFailed(how) == how # "ok"

\* the texts of the candidates of this harvest
HarvestTexts ==
    {[len |-> 20, residue |-> 1], [len |-> 8001, residue |-> 0]}

InHarvestFetches == unit.fn = "harvestFetches"

InitHarvestFetches ==
    /\ NoBatch
    /\ \E cfg \in FetchConfigs :
          unit = [fn |-> "harvestFetches", cfg |-> cfg, pc |-> "listing",
                  n |-> 0, log |-> <<>>, listing |-> "none",
                  fetch |-> "none", summary |-> EmptyText,
                  content |-> EmptyText, returned |-> "none"]

\* the listing fetch and what follows it
HfListing ==
    /\ InHarvestFetches /\ unit.pc = "listing"
    /\ \E how \in ListingOutcomes(unit.cfg) :
          unit' = [unit EXCEPT
                      !.log = Append(@, "listing."
                                        \o ListingFetchStrategy(unit.cfg)),
                      !.listing = how,
                      !.pc = IF ListingFailed(how) THEN "returned"
                             ELSE "candidate",
                      !.returned = IF ListingFailed(how) THEN "[]"
                                   ELSE "none"]
    /\ UNCHANGED batchVars

\* the loop head and steps 1 to 5 of a candidate that gets as far as step 6
HfCandidate ==
    /\ InHarvestFetches /\ unit.pc = "candidate"
    /\ \/ unit' = [unit EXCEPT !.pc = "returned", !.returned = "articles"]
       \/ /\ unit.n < MaxCandidates
          /\ \E s \in HarvestTexts :
                unit' = [unit EXCEPT
                            !.n = @ + 1,
                            !.summary = s,
                            !.fetch = "none",
                            !.content =
                               IF /\ unit.cfg.fetchFullArticle
                                  /\ unit.cfg.fullContentSelectors > 0
                               THEN s
                               ELSE slice(cleanContentLen(s), ContentCap),
                            !.pc =
                               IF /\ unit.cfg.fetchFullArticle
                                  /\ unit.cfg.fullContentSelectors > 0
                               THEN "limiter"
                               ELSE "candidate"]
    /\ UNCHANGED batchVars

\* if (config.rateLimitMs) await wait(config.rateLimitMs)
HfRateLimit ==
    /\ InHarvestFetches /\ unit.pc = "limiter"
    /\ unit' = [unit EXCEPT
                   !.log = IF unit.cfg.rateLimitMs > 0
                           THEN Append(@, "wait") ELSE @,
                   !.pc = "fetch"]
    /\ UNCHANGED batchVars

\* the fetch of the article page and the rest of step 6
HfFetch ==
    /\ InHarvestFetches /\ unit.pc = "fetch"
    /\ \E how \in ArticleOutcomes(unit.cfg), t \in HarvestTexts :
          unit' = [unit EXCEPT
                      !.log = Append(@, "article."
                                        \o ArticleFetchStrategy(unit.cfg)),
                      !.fetch = how,
                      !.content = ContentAfterFetch(unit.summary,
                                                    how = "ok", t),
                      !.pc = "candidate"]
    /\ UNCHANGED batchVars

NextHarvestFetches == HfListing \/ HfCandidate \/ HfRateLimit \/ HfFetch

SpecHarvestFetches == InitHarvestFetches /\ [][NextHarvestFetches]_vars

\* ------------------------------------------------ the postprocess hook
\* No entry of the registry configures a postprocess hook, so the step
\* is checked on its own: one validated article goes through the hook (if
\* any), is pushed and its URL is marked seen.  A hook is a function from
\* NewsArticle to NewsArticle (ScrapingConfig.postprocess) that either
\* returns a rewritten record or throws.
PostprocessHooks ==
    {"none", "rewritesTitle", "rewritesUrl", "rewritesContent", "throws"}

ValidatedArticles ==
    [title : {"Title of one", "Title of two", "A third title"},
     url : {"https://www.bbc.com/a", "https://www.bbc.com/b"},
     content : {t \in Texts : t.len >= MinContentLength /\ t.residue = 0},
     source : {"BBC"}]

HookThrows(hook) == hook = "throws"

\* what a hook that returns gives back
HookResult(hook, article) ==
    CASE hook = "rewritesTitle" -> [article EXCEPT !.title = "Rewritten"]
      [] hook = "rewritesUrl" ->
            [article EXCEPT !.url = "https://www.bbc.com/rewritten"]
      [] hook = "rewritesContent" ->
            [article EXCEPT !.content = [len |-> 19, residue |-> 0]]
      [] OTHER -> article

\* let finalArticle = article; if (config.postprocess) { try {
\* finalArticle = config.postprocess(finalArticle) } catch { log } }
finalArticle(hook, article) ==
    IF hook = "none" THEN article
    ELSE IF HookThrows(hook) THEN article
    ELSE HookResult(hook, article)

InPostprocess == unit.fn = "postprocess"

InitPostprocess ==
    /\ NoBatch
    /\ \E hook \in PostprocessHooks : \E a \in ValidatedArticles :
          unit = [fn |-> "postprocess", hook |-> hook, article |-> a,
                  pc |-> "validated", articles |-> <<>>, seenUrls |-> {}]

\* a hook failure that reaches the catch of the candidate instead of its
\* own: nothing is pushed
PostprocessUnguarded ==
    /\ InPostprocess /\ unit.pc = "validated"
    /\ unit' = IF HookThrows(unit.hook)
               THEN [unit EXCEPT !.pc = "emitted"]
               ELSE [unit EXCEPT
                       !.pc = "emitted",
                       !.articles =
                           Append(@, finalArticle(unit.hook, unit.article)),
                       !.seenUrls =
                           @ \cup {finalArticle(unit.hook, unit.article).url}]
    /\ UNCHANGED batchVars

\* the hook, the push and the mark of one validated article
PostprocessEmit ==
    /\ InPostprocess /\ unit.pc = "validated"
    /\ unit' = [unit EXCEPT
                  !.pc = "emitted",
                  !.articles =
                      Append(@, finalArticle(unit.hook, unit.article)),
                  !.seenUrls =
                      @ \cup {finalArticle(unit.hook, unit.article).url}]
    /\ UNCHANGED batchVars

\* the next validated article, under another hook
PostprocessNext ==
    /\ InPostprocess /\ unit.pc = "emitted"
    /\ \E hook \in PostprocessHooks : \E a \in ValidatedArticles :
          unit' = [fn |-> "postprocess", hook |-> hook, article |-> a,
                   pc |-> "validated", articles |-> <<>>, seenUrls |-> {}]
    /\ UNCHANGED batchVars

NextPostprocess == PostprocessEmit \/ PostprocessNext

SpecPostprocess == InitPostprocess /\ [][NextPostprocess]_vars

\* ------------------------------------- the candidate loop of one harvest
\* The batch actions draw the elements of the listing page one at a time;
\* here the document is fixed beforehand, so that the order of what is
\* emitted can be compared with the order of the document, and the limiter
\* of the full-article fetches (limitFullArticleFetch, pLimit of the
\* concurrency handed to performScraping) is kept with its count.  An
\* element has the URL its link resolves to, its title, and a fate: its
\* link is rejected, reading a field throws, its content stays too short,
\* or it passes.
LoopUrls == {"https://www.bbc.com/a", "https://www.bbc.com/b"}
LoopTitles == {"Title of one", "Title of two"}
Fates == {"passes", "badLink", "throws", "shortContent"}
Elements == [url : LoopUrls, title : LoopTitles, fate : Fates]

RECURSIVE DocumentsOfLen(_)
DocumentsOfLen(n) ==
    IF n = 0 THEN {<<>>}
    ELSE {Append(d, e) : d \in DocumentsOfLen(n - 1), e \in Elements}

Documents == UNION {DocumentsOfLen(n) : n \in 0..MaxCandidates}

\* the article built from an element of the listing page
ArticleOf(el) == [title |-> el.title, url |-> el.url]

\* an emit that puts the article in front
unshift(arts, a) == <<a>> \o arts

\* articles.push(finalArticle)
push(arts, a) == Append(arts, a)

InCandidateLoop == unit.fn = "candidateLoop"

\*   doc      articleElements.toArray()
\*   c        the concurrency of limitFullArticleFetch
\*   lim      the limit of the harvest
\*   k        the element the loop is at (0 before the first)
\*   done     what became of the elements the loop is through with
\*   active   activeCount of limitFullArticleFetch
\*   inFlight the elements whose full-article fetch is running
InitCandidateLoop ==
    /\ NoBatch
    /\ \E doc \in Documents, c \in {1, MaxConcurrency}, lim \in {1, MaxLimit} :
          unit = [fn |-> "candidateLoop", doc |-> doc, c |-> c, lim |-> lim,
                  pc |-> "loop", k |-> 0, done |-> <<>>, articles |-> <<>>,
                  seenUrls |-> {}, active |-> 0, inFlight |-> {}]

\* for (const element of articleElements.toArray()) with the break at the
\* limit
ClLoopHead ==
    /\ InCandidateLoop /\ unit.pc = "loop"
    /\ unit' = IF Len(unit.articles) >= unit.lim \/ unit.k = Len(unit.doc)
               THEN [unit EXCEPT !.pc = "returned"]
               ELSE [unit EXCEPT !.pc = "link", !.k = @ + 1]
    /\ UNCHANGED batchVars

\* a link check that marks the URL seen as soon as the link is accepted
ClLinkMarks ==
    /\ InCandidateLoop /\ unit.pc = "link"
    /\ LET el == unit.doc[unit.k]
       IN  unit' = IF el.fate = "badLink" \/ el.url \in unit.seenUrls
                   THEN [unit EXCEPT !.pc = "loop",
                                     !.done = Append(@, "dropped")]
                   ELSE [unit EXCEPT !.pc = "extract",
                                     !.seenUrls = @ \cup {el.url}]
    /\ UNCHANGED batchVars

\* step 1: the link is resolved and checked
ClLink ==
    /\ InCandidateLoop /\ unit.pc = "link"
    /\ LET el == unit.doc[unit.k]
       IN  unit' = IF el.fate = "badLink" \/ el.url \in unit.seenUrls
                   THEN [unit EXCEPT !.pc = "loop",
                                     !.done = Append(@, "dropped")]
                   ELSE [unit EXCEPT !.pc = "extract"]
    /\ UNCHANGED batchVars

\* a loop that does not wait for the fetch it has handed to the limiter
ClExtractNoAwait ==
    /\ InCandidateLoop /\ unit.pc = "extract"
    /\ unit.active < unit.c
    /\ unit' = IF unit.doc[unit.k].fate = "throws"
               THEN [unit EXCEPT !.pc = "caught"]
               ELSE [unit EXCEPT !.pc = "validate",
                                 !.active = @ + 1,
                                 !.inFlight = @ \cup {unit.k}]
    /\ UNCHANGED batchVars

\* steps 2 to 6: the fields are read, then the full-article fetch is handed
\* to limitFullArticleFetch and awaited; the limiter starts it at once,
\* because a slot is free
ClExtract ==
    /\ InCandidateLoop /\ unit.pc = "extract"
    /\ unit.active < unit.c
    /\ unit' = IF unit.doc[unit.k].fate = "throws"
               THEN [unit EXCEPT !.pc = "caught"]
               ELSE [unit EXCEPT !.pc = "await",
                                 !.active = @ + 1,
                                 !.inFlight = @ \cup {unit.k}]
    /\ UNCHANGED batchVars

\* a full-article fetch settles: its slot is given back and the loop that
\* awaits it goes on
ClFetchSettle ==
    /\ InCandidateLoop
    /\ \E j \in unit.inFlight :
          unit' = [unit EXCEPT
                     !.active = @ - 1,
                     !.inFlight = @ \ {j},
                     !.pc = IF unit.pc = "await" /\ j = unit.k
                            THEN "validate" ELSE @]
    /\ UNCHANGED batchVars

\* steps 7 and 8: the final validation, the push and the mark
ClValidate ==
    /\ InCandidateLoop /\ unit.pc = "validate"
    /\ LET el == unit.doc[unit.k]
       IN  unit' = IF el.fate = "passes"
                   THEN [unit EXCEPT
                           !.pc = "loop",
                           !.articles = push(@, ArticleOf(el)),
                           !.seenUrls = @ \cup {el.url},
                           !.done = Append(@, "emitted")]
                   ELSE [unit EXCEPT !.pc = "loop",
                                     !.done = Append(@, "dropped")]
    /\ UNCHANGED batchVars

\* the catch block of the loop body
ClCatch ==
    /\ InCandidateLoop /\ unit.pc = "caught"
    /\ unit' = [unit EXCEPT !.pc = "loop", !.done = Append(@, "dropped")]
    /\ UNCHANGED batchVars

NextCandidateLoop ==
    \/ ClLoopHead
    \/ ClLink
    \/ ClExtract
    \/ ClFetchSettle
    \/ ClValidate
    \/ ClCatch

SpecCandidateLoop == InitCandidateLoop /\ [][NextCandidateLoop]_vars

\* -------------------------------------------------------------- scoreElement
\* A node of the parsed page, as far as the scorer looks at it: its type,
\* its tag name, the length of its cleaned text and whether one of its
\* ancestors is a navigation, footer, aside, sidebar or comments region.
NodeTypes == {"tag", "text"}
TagNames == {"a", "h2", "h5", "p", "div"}
NodeTextLengths == {0, 4, 45}
Nodes ==
    [type : NodeTypes, tagName : TagNames, textLength : NodeTextLengths,
     inIgnored : BOOLEAN]

\* selector strings as the configurations have them, and two more whose
\* text names a field
ScoredSelectors ==
    {"h2", "p", "[class*=\"headline\"]", "[class*=\"title\"]",
     "div[class*=\"content\"]", "a[class*=\"Link\"]"}

\* the fields selectBest scores with scoreElement
ScoredFields == {"title", "summary", "fullContent"}

\* str.includes(p)
includes(str, p) == search(str, p, 1) # 0

\* the bonus of the tag
tagBoost(tagName) ==
    IF tagName \in {"h1", "h2", "h3"} THEN 30
    ELSE IF tagName \in {"h4", "h5", "h6"} THEN 15
    ELSE IF tagName = "p" THEN 5
    ELSE 0

\* the bonus of the selector's text
selectorBoost(selector) ==
    (IF includes(toLowerCase(selector), "title")
        \/ includes(toLowerCase(selector), "headline") THEN 20 ELSE 0)
    + (IF includes(toLowerCase(selector), "content")
          \/ includes(toLowerCase(selector), "body")
          \/ includes(toLowerCase(selector), "article") THEN 10 ELSE 0)

\* the penalty of a node that is itself a hyperlink
linkPenalty(tagName, selector) ==
    IF /\ tagName = "a"
       /\ ~includes(toLowerCase(selector), "link")
       /\ ~includes(toLowerCase(selector), "title")
    THEN 10 ELSE 0

scoreElement(element, selector) ==
    IF element.type # "tag" THEN 0
    ELSE Max(0, element.textLength
                + tagBoost(toLowerCase(element.tagName))
                + selectorBoost(selector)
                - (IF element.inIgnored THEN 50 ELSE 0)
                - linkPenalty(toLowerCase(element.tagName), selector))

InScoreElement == unit.fn = "scoreElement"

ScoreCall(field, selector, el) ==
    [fn |-> "scoreElement", field |-> field, selector |-> selector,
     element |-> el, pc |-> "called", score |-> 0]

InitScoreElement ==
    /\ NoBatch
    /\ \E field \in ScoredFields, selector \in ScoredSelectors, el \in Nodes :
          unit = ScoreCall(field, selector, el)

\* the call of line 501: the field is not handed over
ScoreOne ==
    /\ InScoreElement /\ unit.pc = "called"
    /\ unit' = [unit EXCEPT
                  !.pc = "returned",
                  !.score = scoreElement(unit.element, unit.selector)]
    /\ UNCHANGED batchVars

\* the next node selectBest scores
ScoreNext ==
    /\ InScoreElement /\ unit.pc = "returned"
    /\ \E field \in ScoredFields, selector \in ScoredSelectors, el \in Nodes :
          unit' = ScoreCall(field, selector, el)
    /\ UNCHANGED batchVars

NextScoreElement == ScoreOne \/ ScoreNext

SpecScoreElement == InitScoreElement /\ [][NextScoreElement]_vars

\* ---------------------------------------------------------------- selectBest
\* What context.find(selector) yields for the selectors of one field, in
\* the order the two loops of selectBest visit it: selector after selector,
\* and the nodes of one selector in document order.  A match has the index
\* of its selector and the node: tag name, text, href and whether its
\* style hides it.
MaxMatches == 3

FieldSelectors == <<"p", "[class*=\"title\"]">>

\* the texts of the nodes, and cleanContent of each
NodeTexts == {"<b>Short</b>", "A longer text."}

cleanedText == [text \in NodeTexts |-> cleanContent(text)]

MatchedNodes(field) ==
    IF field = "link"
    THEN [tagName : {"a"}, text : {""},
          href : {"/a", "#top", "https://www.bbc.com/b"}, hidden : BOOLEAN]
    ELSE [tagName : {"p", "h2"}, text : NodeTexts,
          href : {""}, hidden : BOOLEAN]

Matches(field) == [selector : DOMAIN FieldSelectors, node : MatchedNodes(field)]

\* selector 1 is searched before selector 2
InSelectorOrder(l) ==
    \A j \in 1..(Len(l) - 1) : l[j].selector <= l[j + 1].selector

\* currentText of a match
candidateText(field, m) ==
    IF field = "link" THEN m.node.href
    ELSE cleanedText[m.node.text]

\* score of a match
scoreOfMatch(field, m) ==
    IF field = "link"
    THEN (IF startsWith(m.node.href, "http") \/ startsWith(m.node.href, "/")
          THEN 1 ELSE 0)
    ELSE scoreElement([type |-> "tag", tagName |-> m.node.tagName,
                       textLength |-> Len(cleanedText[m.node.text]),
                       inIgnored |-> FALSE],
                      FieldSelectors[m.selector])

\* the scores of all matches, computed once
candidateScores ==
    [field \in {"link", "summary"} |->
        [m \in Matches(field) |-> scoreOfMatch(field, m)]]

candidateScore(field, m) == candidateScores[field][m]

\* !selectorConfig.minLength || currentText.length >= minLength
meetsMinLength(minLength, text) == minLength = 0 \/ Len(text) >= minLength

\* a comparison that lets a later match of equal score take over
betterOrEqual(score, bestScore) == score >= bestScore

\* score > bestScore
better(score, bestScore) == score > bestScore

\* currentText and score of every match, and whether the match is hidden
candidatesOf(field, matches) ==
    [k \in DOMAIN matches |->
        [text |-> candidateText(field, matches[k]),
         score |-> candidateScore(field, matches[k]),
         hidden |-> matches[k].node.hidden]]

\* the body of elements.each for the matches from position k on; best is
\* (bestMatchText, bestScore, bestElement), the element as its position
RECURSIVE scan(_, _, _, _)
scan(minLength, cands, k, best) ==
    IF k > Len(cands) THEN best
    ELSE IF cands[k].hidden
    THEN scan(minLength, cands, k + 1, best)
    ELSE IF /\ meetsMinLength(minLength, cands[k].text)
            /\ better(cands[k].score, best.score)
    THEN scan(minLength, cands, k + 1,
              [text |-> cands[k].text, score |-> cands[k].score,
               element |-> k])
    ELSE scan(minLength, cands, k + 1, best)

selectBest(field, minLength, matches) ==
    scan(minLength, candidatesOf(field, matches), 1,
         [text |-> "", score |-> -1, element |-> 0])

InSelectBest == unit.fn = "selectBest"

SelectCall(field, minLength, matches) ==
    [fn |-> "selectBest", field |-> field, minLength |-> minLength,
     matches |-> matches, pc |-> "called", bestMatchText |-> "",
     bestElement |-> 0]

InitSelectBest ==
    /\ NoBatch
    /\ \E field \in {"link", "summary"}, minLength \in {0, 10} :
       \E n \in 0..MaxMatches : \E matches \in [1..n -> Matches(field)] :
          /\ InSelectorOrder(matches)
          /\ unit = SelectCall(field, minLength, matches)

SelectOne ==
    /\ InSelectBest /\ unit.pc = "called"
    /\ LET best == selectBest(unit.field, unit.minLength, unit.matches)
       IN  unit' = [unit EXCEPT !.pc = "returned",
                                !.bestMatchText = best.text,
                                !.bestElement = best.element]
    /\ UNCHANGED batchVars

\* the next field, with the matches of its selectors
SelectNext ==
    /\ InSelectBest /\ unit.pc = "returned"
    /\ \E field \in {"link", "summary"} :
          unit' = SelectCall(field, unit.minLength, <<>>)
    /\ UNCHANGED batchVars

NextSelectBest == SelectOne \/ SelectNext

SpecSelectBest == InitSelectBest /\ [][NextSelectBest]_vars

\* ------------------------------------------------- the store calls of a batch
\* Two article tasks of one batch, one for an article of each of two
\* sources, and the storage they write to: uploadString puts the data at
\* articles/<id>.json and replaces what was there.
StoreUrls ==
    {"https://www.bbc.com/a", "https://www.bbc.com/b", "https://www.cnn.com/a"}

HarvestedArticles(sourceName) ==
    [title : {"Headline of the story"}, url : StoreUrls, source : {sourceName}]

\* an id made of the source name instead of the URL
articleIdOfSource(article) == encodeBase64UrlSafe(article.source)

\* const articleId = encodeBase64UrlSafe(article.url)
articleId(article) == encodeBase64UrlSafe(article.url)

dataToStore(article, script) ==
    [title |-> article.title, url |-> article.url, source |-> article.source,
     generatedScript |-> script]

\* uploadString(ref(storage, `articles/${articleId}.json`), ...)
put(storage, id, data) ==
    [key \in DOMAIN storage \cup {id} |->
        IF key = id THEN data ELSE storage[key]]

InStore == unit.fn = "store"

\*   articles  the article of each task
\*   pc        where each task is: summarize, store, stored or failed
\*   calls     the storeArticle calls so far: id, data, and whether the
\*             upload succeeded
\*   storage   what the bucket holds, by id
InitStore ==
    /\ NoBatch
    /\ \E a \in HarvestedArticles("BBC News"), b \in HarvestedArticles("CNN") :
          unit = [fn |-> "store", articles |-> <<a, b>>,
                  pc |-> <<"summarize", "summarize">>, calls |-> <<>>,
                  storage |-> <<>>, processedCount |-> 0, errors |-> <<>>]

\* summarizeArticle settles
StSummarize(t) ==
    /\ InStore /\ unit.pc[t] = "summarize"
    /\ \/ unit' = [unit EXCEPT !.pc[t] = "store"]
       \/ unit' = [unit EXCEPT !.pc[t] = "failed",
                               !.errors = Append(@, unit.articles[t].url)]
    /\ UNCHANGED batchVars

\* storeArticle(articleId, dataToStore) settles
StStore(t) ==
    /\ InStore /\ unit.pc[t] = "store"
    /\ LET a == unit.articles[t]
           id == articleId(a)
           data == dataToStore(a, "script")
       IN  \/ unit' = [unit EXCEPT
                         !.pc[t] = "stored",
                         !.calls = Append(@, [id |-> id, data |-> data,
                                              ok |-> TRUE]),
                         !.storage = put(@, id, data),
                         !.processedCount = @ + 1]
           \/ unit' = [unit EXCEPT
                         !.pc[t] = "failed",
                         !.calls = Append(@, [id |-> id, data |-> data,
                                              ok |-> FALSE]),
                         !.errors = Append(@, a.url)]
    /\ UNCHANGED batchVars

NextStore == \E t \in 1..2 : StSummarize(t) \/ StStore(t)

SpecStore == InitStore /\ [][NextStore]_vars

\* ================================================================ claims
ArticleUrls(i) == {articles[i][k].url : k \in DOMAIN articles[i]}

\* performScraping of source i has returned its articles
Returned(i) == spc[i] \in {"scraped", "awaitArticles", "done"}

\* the source task of source i has submitted its article tasks
Dispatched(i) == spc[i] \in {"awaitArticles", "done"}

\* entries of allErrors without a URL that name the source identifier s
SourceErrors(s) ==
    {n \in DOMAIN allErrors : allErrors[n].source = s /\ allErrors[n].url = ""}

\* C1: a running batch can always take a step: it never reaches a state in
\* which the entry point has not returned and no source task or article
\* task can start, go on or settle (every fetch, summarize and store call
\* of the model settles), so the batch eventually returns.
C1_RunningBatchCanProgress == batch = "running" => ENABLED Next

\* C2: the entry point never throws or rejects, whatever the sources, the
\* limit, the concurrency value and the failures of its collaborators.
C2_NeverRejects == batch # "rejected"

\* C3: in the returned result, a source whose listing fetch failed has
\* contributed zero articles and one error entry naming it per failed
\* harvest, and success is false.
C3_ListingFailureReported ==
    batch = "returned" =>
        \A i \in DOMAIN sources :
            outcome[i] = "listingFailed" =>
                /\ Len(articles[i]) = 0
                /\ Cardinality(SourceErrors(sources[i])) =
                      Cardinality({j \in DOMAIN sources :
                                      /\ sources[j] = sources[i]
                                      /\ outcome[j] = "listingFailed"})
                /\ ~result.success

\* C4: in the returned result, a source identifier that is neither a
\* registry key nor a URL has an error entry naming it, and success is false.
C4_InvalidSourceReported ==
    batch = "returned" =>
        \A i \in DOMAIN sources :
            outcome[i] = "invalidSource" =>
                /\ SourceErrors(sources[i]) # {}
                /\ ~result.success

\* C5: in every returned result, success is true if and only if the errors
\* list is empty.
C5_SuccessIffNoErrors ==
    batch = "returned" => (result.success <=> Len(result.errors) = 0)

\* a batch returned with at least one error entry
C5_Witness == batch = "returned" /\ Len(result.errors) > 0

\* C6: at every point of a source's harvest, and in what it returns, no two
\* emitted articles of that source have the same URL.
C6_DedupWithinSource ==
    \A i \in DOMAIN sources :
        \A k1, k2 \in DOMAIN articles[i] :
            k1 # k2 => articles[i][k1].url # articles[i][k2].url

\* the link check is about to see a link that is spelled differently from
\* but resolves to the URL of an article this source has emitted
C6_Witness ==
    \E i \in DOMAIN sources :
        /\ spc[i] = "candidate"
        /\ cur[i].link = "/a"
        /\ resolveUrl(ConfigOf(sources[i]).url, cur[i].link) \in ArticleUrls(i)

\* C7: the link check of a source looks only at that source's own emitted
\* URLs, so a candidate with a valid URL is not skipped because another
\* source emitted that URL (it goes on to the extraction, or to the catch
\* block when reading it throws); every article a harvest returns is
\* counted in
\* totalArticlesScraped and gets a summarize+store task.
C7_SeenSetIsSourceLocal ==
    [][\A i \in DOMAIN sources :
          /\ (spc[i] = "candidate" /\ spc'[i] # "candidate") =>
                LET url == resolveUrl(ConfigOf(sources[i]).url, cur[i].link)
                IN  (url # "" /\ startsWith(url, "http")
                        /\ url \notin ArticleUrls(i)) =>
                       spc'[i] \in {"extract", "caught"}
          /\ (spc[i] = "scraped" /\ spc'[i] # "scraped") =>
                /\ totalArticlesScraped' =
                      totalArticlesScraped + Len(articles[i])
                /\ DOMAIN apc'[i] = DOMAIN articles[i]
                /\ \A k \in DOMAIN apc'[i] :
                      apc'[i][k] \in {"queued", "summarize"}
      ]_vars

\* two different sources have each returned, counted and dispatched an
\* article with the same URL
C7_Witness ==
    \E i, j \in DOMAIN sources :
        /\ sources[i] # sources[j]
        /\ Dispatched(i) /\ Dispatched(j)
        /\ ArticleUrls(i) \cap ArticleUrls(j) # {}
        /\ totalArticlesScraped >= 2
        /\ apc[i] # <<>> /\ apc[j] # <<>>

\* C8 as written: no two articles handed to the orchestrator in one batch,
\* from the same or from different sources, share a URL.
C8_UrlUniqueInBatch ==
    \A i, j \in DOMAIN sources :
        (Returned(i) /\ Returned(j)) =>
            \A k1 \in DOMAIN articles[i], k2 \in DOMAIN articles[j] :
                <<i, k1>> # <<j, k2>> =>
                    articles[i][k1].url # articles[j][k2].url

\* C8 amended: two article tasks of one batch that carry the same URL belong
\* to different source tasks (a URL is unique among the articles one harvest
\* handed over, not across harvests).
C8_UrlUniqueWithinHarvest ==
    \A i, j \in DOMAIN sources :
        \A k1 \in DOMAIN apc[i], k2 \in DOMAIN apc[j] :
            (<<i, k1>> # <<j, k2>>
                /\ articles[i][k1].url = articles[j][k2].url) => i # j

\* one harvest handed over two articles, and another harvest handed over an
\* article with the URL of one of them
C8_Witness ==
    \E i, j \in DOMAIN sources :
        /\ i # j
        /\ Len(apc[i]) = 2
        /\ Len(apc[j]) >= 1
        /\ articles[j][1].url \in ArticleUrls(i)

\* C9: every emitted article has a non-empty title, an absolute URL that
\* begins with http, and content of at least MinContentLength characters.
C9_EmittedArticlesValid ==
    \A i \in DOMAIN sources :
        \A k \in DOMAIN articles[i] :
            /\ articles[i][k].title # ""
            /\ HasScheme(articles[i][k].url)
            /\ startsWith(articles[i][k].url, "http")
            /\ articles[i][k].content.len >= MinContentLength

\* a harvest that has emitted one candidate and dropped another
C9_Witness ==
    \E i \in DOMAIN sources :
        /\ spc[i] = "loop"
        /\ idx[i] = 2
        /\ Len(articles[i]) = 1

\* C10: at the final validation a candidate is emitted exactly when its
\* content has at least MinContentLength characters (20 is emitted, 19 is
\* dropped), whatever the minLength of the source's summary field.
C10_ValidationBoundary ==
    [][\A i \in DOMAIN sources :
          (spc[i] = "validate" /\ spc'[i] # "validate") =>
              /\ (cur[i].content.len >= MinContentLength) =>
                    articles'[i] = Append(articles[i], NewsArticle(i, cur[i]))
              /\ (cur[i].content.len < MinContentLength) =>
                    articles'[i] = articles[i]
      ]_vars

\* a source whose summary minLength is below the threshold has emitted an
\* article of exactly MinContentLength characters and is validating a
\* candidate one character shorter
C10_Witness ==
    \E i \in DOMAIN sources :
        /\ ConfigOf(sources[i]).summaryMinLength < MinContentLength
        /\ spc[i] = "validate"
        /\ cur[i].content.len = MinContentLength - 1
        /\ \E k \in DOMAIN articles[i] :
              articles[i][k].content.len = MinContentLength

\* the steps of the candidate loop body
InLoopBody == {"candidate", "extract", "fullFetch", "validate", "caught"}

\* C11: a harvest never holds more than limit articles (limit 0 included);
\* with the limit reached no candidate is taken or processed any further
\* and the loop is left; the articles emitted so far stay as they are.
C11_LimitRespected ==
    [][\A i \in DOMAIN sources :
          /\ Len(articles'[i]) <= limit
          /\ Len(articles'[i]) >= Len(articles[i])
          /\ SubSeq(articles'[i], 1, Len(articles[i])) = articles[i]
          /\ Len(articles'[i]) >= limit => spc'[i] \notin InLoopBody
          /\ (spc[i] = "loop" /\ Len(articles[i]) >= limit
                /\ spc'[i] # "loop") =>
                (spc'[i] = "scraped" /\ idx'[i] = idx[i])
      ]_vars

\* a harvest has left the loop with limit articles, limit being positive,
\* before the document's candidates were used up
C11_Witness ==
    \E i \in DOMAIN sources :
        /\ spc[i] = "scraped"
        /\ limit >= 1
        /\ Len(articles[i]) = limit
        /\ idx[i] < MaxCandidates

\* C12: when the full-article step of a candidate fails, whatever the
\* failure, the candidate goes on to validation with the cleaned summary
\* capped at ContentCap as its content, and validation emits it exactly
\* when that content has MinContentLength characters or more.
C12_FetchFailureFallsBack ==
    [][\A i \in DOMAIN sources :
          /\ (spc[i] = "fullFetch" /\ spc'[i] # "fullFetch"
                /\ cur'[i].fetch \in FetchFailures) =>
                /\ spc'[i] = "validate"
                /\ cur'[i].content.len =
                      Min(cur[i].summary.len - cur[i].summary.residue,
                          ContentCap)
                /\ cur'[i].url = cur[i].url
                /\ cur'[i].title = cur[i].title
          /\ (spc[i] = "validate" /\ spc'[i] # "validate"
                /\ cur[i].fetch \in FetchFailures) =>
                IF cur[i].content.len >= MinContentLength
                THEN /\ Len(articles'[i]) = Len(articles[i]) + 1
                     /\ articles'[i][Len(articles'[i])].url = cur[i].url
                     /\ articles'[i][Len(articles'[i])].content
                           = cur[i].content
                ELSE articles'[i] = articles[i]
      ]_vars

\* a candidate whose summary is longer than the cap is about to be
\* validated after its full-article fetch came back empty
C12_Witness ==
    \E i \in DOMAIN sources :
        /\ spc[i] = "validate"
        /\ cur[i].fetch = "emptyBody"
        /\ cur[i].summary.len > ContentCap
        /\ cur[i].content.len = ContentCap

\* entries of allErrors tagged with the URL u
ErrorsTagged(errs, u) == {n \in DOMAIN errs : errs[n].url = u}

\* the article tasks, as pairs <<source index, article index>>
ArticleTasksOf(ap) ==
    UNION {{<<i, k>> : k \in DOMAIN ap[i]} : i \in DOMAIN ap}

\* C13 as written: in the returned batch, every emitted article whose
\* full-article fetch threw a timeout has an error entry tagged with its URL.
C13_TimeoutReported ==
    batch = "returned" =>
        \A u \in fetchTimeouts : ErrorsTagged(allErrors, u) # {}

\* C13 amended: a timeout of the full-article fetch leaves the error list
\* as it is and makes the cleaned, capped summary the content; in the
\* returned batch the entries tagged with the URL of such an article are
\* one per failed summarize+store task of an article with that URL.
C13_TimeoutNotReported ==
    [][/\ \A i \in DOMAIN sources :
            (spc[i] = "fullFetch" /\ spc'[i] # "fullFetch"
                /\ cur'[i].fetch = "timeout") =>
                /\ allErrors' = allErrors
                /\ cur'[i].content.len =
                      Min(cur[i].summary.len - cur[i].summary.residue,
                          ContentCap)
       /\ \A i \in DOMAIN sources :
            (spc[i] = "validate" /\ spc'[i] # "validate"
                /\ cur[i].fetch = "timeout") => allErrors' = allErrors
       /\ batch' = "returned" =>
            \A u \in fetchTimeouts' :
                Cardinality(ErrorsTagged(allErrors', u)) =
                Cardinality({t \in ArticleTasksOf(apc') :
                                /\ articles'[t[1]][t[2]].url = u
                                /\ apc'[t[1]][t[2]] = "failed"})
      ]_vars

\* a batch has returned without any error entry although the full-article
\* fetch of an emitted, stored article had thrown a timeout
C13_Witness ==
    /\ batch = "returned"
    /\ fetchTimeouts # {}
    /\ allErrors = <<>>
    /\ processedCount >= 1

C15_DropsAreNotErrors ==
    [][/\ \A i \in DOMAIN sources :
            (spc[i] \in {"candidate", "extract", "validate"}
                /\ spc'[i] = "loop" /\ articles'[i] = articles[i]) =>
                allErrors' = allErrors
       /\ (batch' = "returned"
            /\ \A i \in DOMAIN sources : articles'[i] = <<>>) =>
            /\ result'.articlesScraped = 0
            /\ result'.errors = <<>>
            /\ result'.success
      ]_vars

\* a batch has returned a success after a reachable source offered
\* candidates and every one of them was dropped
C15_Witness ==
    /\ batch = "returned"
    /\ result.success
    /\ \A i \in DOMAIN sources : articles[i] = <<>>
    /\ \E i \in DOMAIN sources :
          outcome[i] = "harvested" /\ limit >= 1 /\ idx[i] >= 2

\* the articles the harvests of sources 1..n returned, counted
RECURSIVE Harvested(_)
Harvested(n) == IF n = 0 THEN 0 ELSE Len(articles[n]) + Harvested(n - 1)

\* the article tasks whose summarize call and store call both succeeded
StoredTasks == {t \in ArticleTasksOf(apc) : apc[t[1]][t[2]] = "stored"}

\* C16: in the returned result sourcesAttempted is the number of source
\* identifiers passed, articlesScraped is the number of articles all the
\* harvests returned, and processedCount is the number of article tasks
\* whose summarize and store calls both succeeded, however the source tasks
\* and article tasks were interleaved.
C16_CountersExact ==
    batch = "returned" =>
        /\ result.sourcesAttempted = Len(sources)
        /\ result.articlesScraped = Harvested(Len(sources))
        /\ result.processedCount = Cardinality(StoredTasks)

\* a batch over two sources has returned; each source contributed an
\* article, one of which was stored while the other failed
C16_Witness ==
    /\ batch = "returned"
    /\ \A i \in DOMAIN sources : Len(articles[i]) = 1
    /\ Len(sources) = 2
    /\ Cardinality(StoredTasks) = 1
    /\ Len(allErrors) = 1

\* C17: when the result is returned every source task and every article
\* task has settled, no task holds a slot or waits for one, and the result
\* carries the counters and errors as they are then; after the return
\* nothing changes any more.
C17_ReturnAfterJoin ==
    [][/\ batch' = "returned" =>
            /\ \A i \in DOMAIN sources : spc'[i] = "done"
            /\ \A t \in ArticleTasksOf(apc') : Settled(apc'[t[1]][t[2]])
            /\ activeCount' = 0
            /\ queue' = <<>>
            /\ result'.processedCount = processedCount'
            /\ result'.articlesScraped = totalArticlesScraped'
            /\ Len(result'.errors) = Len(allErrors')
       /\ batch = "returned" => vars' = vars
      ]_vars

\* a batch over two sources has returned after both articles were stored
C17_Witness ==
    /\ batch = "returned"
    /\ Len(sources) = 2
    /\ processedCount = 2
    /\ \A i \in DOMAIN sources : spc[i] = "done" /\ Len(apc[i]) = 1

PcOf(sp, ap, t) == IF t.kind = "src" THEN sp[t.i] ELSE ap[t.i][t.k]

\* the source tasks whose harvest is running
RunningHarvests(sp) ==
    {i \in DOMAIN sp : sp[i] \in {"scraping", "fetchListing", "loop",
                                  "candidate", "extract", "fullFetch",
                                  "validate", "scraped"}}

\* the article tasks that are in their summarize or store call
RunningArticleTasks(ap) ==
    {t \in ArticleTasksOf(ap) : ap[t[1]][t[2]] \in {"summarize", "store"}}

C20_ArticleBoundIndependent ==
    (\E t \in ArticleTasksOf(apc) : apc[t[1]][t[2]] = "queued") =>
        Cardinality(RunningArticleTasks(apc)) >= concurrency

C22_IdRoundTrip ==
    InBase64 =>
        /\ unit.pc \in {"encoded", "done"} =>
              /\ \A k \in 1..Len(unit.idU) :
                    SubSeq(unit.idU, k, k) \notin {"+", "/", "="}
              /\ unit.idU = unit.idV => unit.u = unit.v
        /\ unit.pc = "done" => unit.back = unit.u

\* a URL whose plain base64 text has a '+' and padding in it has been
\* encoded and decoded
C22_Witness ==
    /\ InBase64 /\ unit.pc = "done"
    /\ unit.u = "aa~a" /\ unit.idU = "YWF-YQ" /\ unit.back = "aa~a"
    /\ toBase64(BufferFrom(unit.u)) = "YWF+YQ=="

\* C23: for every input the output of cleanContent has no '<script' and no
\* '<style' in it, no '<' and no '>', and no two whitespace characters in a
\* row.
C23_OutputClean ==
    InCleanContent /\ unit.pc # "args" =>
        /\ search(unit.once, "<script", 1) = 0
        /\ search(unit.once, "<style", 1) = 0
        /\ search(unit.once, "<", 1) = 0
        /\ search(unit.once, ">", 1) = 0
        /\ \A k \in 1..(Len(unit.once) - 1) :
              ~ /\ SubSeq(unit.once, k, k) \in WhiteSpace
                /\ SubSeq(unit.once, k + 1, k + 1) \in WhiteSpace

\* C24: cleanContent is idempotent: cleaning its output again gives the same
\* text, also for inputs with 'Advertisement' or 'Share this story' between
\* words.
C24_Idempotent ==
    InCleanContent /\ unit.pc = "twice" => unit.twice = unit.once

\* C25: for every base and candidate, malformed, empty and undefined ones
\* included, resolveUrl does not throw (a throw of new URL() ends in the
\* catch block, which returns ''), and it returns the empty string or a
\* string that starts with 'http', never a relative path.
C25_EmptyOrHttp ==
    InResolveUrl /\ unit.pc = "returned" =>
        \/ unit.out = ""
        \/ /\ startsWith(unit.out, "http")
           /\ HasScheme(unit.out)

\* resolveUrl has returned '' for a relative link and a base that new URL()
\* does not take
C25_Witness ==
    /\ InResolveUrl /\ unit.pc = "returned"
    /\ unit.baseUrl = "www.bbc.com/news"
    /\ unit.relativeUrl = "/a"
    /\ unit.out = ""

\* C26: resolveUrl returns the empty string whenever the scheme of the
\* resolved URL is neither http nor https, schemes that only start with
\* 'http' included, and whenever the candidate is empty or undefined or the
\* resolution throws.
C26_OnlyHttpSchemes ==
    InResolveUrl /\ unit.pc = "returned" =>
        /\ unit.out # "" => Scheme(unit.out) \in {"http", "https"}
        /\ ~unit.defined \/ unit.relativeUrl = "" => unit.out = ""
        /\ URLThrows(unit.baseUrl) => unit.out = ""
        /\ HasScheme(unit.relativeUrl) /\ URLThrows(unit.relativeUrl) =>
              unit.out = ""

\* C27: an exception raised while a candidate is processed is caught inside
\* the candidate loop: the candidate is dropped, the loop goes on at its
\* head with the candidates that are left, the articles emitted so far and
\* the seen URLs are unchanged, and neither the harvest (its outcome, its
\* articles) nor the batch (its error list, its state) sees the exception.
C27_CandidateFailureIsLocal ==
    [][\A i \in DOMAIN sources :
          /\ (spc[i] # "caught" /\ spc'[i] = "caught") =>
                /\ cur'[i] = NoCandidate
                /\ articles' = articles
                /\ seenUrls' = seenUrls
                /\ idx' = idx
                /\ outcome' = outcome
                /\ allErrors' = allErrors
                /\ batch' = batch
          /\ (spc[i] = "caught" /\ spc'[i] # "caught") =>
                /\ spc'[i] = "loop"
                /\ articles' = articles
                /\ seenUrls' = seenUrls
                /\ idx' = idx
                /\ outcome'[i] = "pending"
                /\ allErrors' = allErrors
                /\ batch' = "running"]_vars

\* the second candidate of a harvest threw after the first was emitted
C27_Witness ==
    \E i \in DOMAIN sources :
        spc[i] = "caught" /\ idx[i] = 2 /\ Len(articles[i]) = 1

\* the positions of article task k of source i, "none" before it exists
TaskAt(ap, i, k) == IF k \in DOMAIN ap[i] THEN ap[i][k] ELSE "none"

\* C28: for each dispatched article the store call starts only from a
\* summarize call of the same article that succeeded (no error entry is
\* added); when summarize fails the task ends as failed without a store
\* call; a task never goes back to summarize or to store, so each article
\* gets at most one summarize call and at most one store call.
C28_StoreAfterSummarize ==
    [][\A i \in DOMAIN sources : \A k \in 1..MaxLimit :
          LET before == TaskAt(apc, i, k)
              after == TaskAt(apc', i, k)
          IN  /\ after = "store" /\ before # "store" =>
                    before = "summarize" /\ allErrors' = allErrors
              /\ after = "summarize" /\ before # "summarize" =>
                    before \in {"none", "queued"}
              /\ before = "summarize" /\ after # "summarize" =>
                    \/ after = "store" /\ allErrors' = allErrors
                    \/ /\ after = "failed"
                       /\ allErrors' =
                             Append(allErrors,
                                    ArticleError(articles[i][k],
                                                 "summarize failed"))
              /\ before = "store" =>
                    after \in {"store", "stored", "failed"}
              /\ before \in {"stored", "failed"} => after = before]_vars

\* the summarize call of an article failed and the article was never
\* stored, while the batch went on to return
C28_Witness ==
    /\ batch = "returned"
    /\ \E i \in DOMAIN sources :
          /\ Len(articles[i]) = 1
          /\ apc[i][1] = "failed"
          /\ allErrors = <<ArticleError(articles[i][1], "summarize failed")>>
          /\ processedCount = 0

CleanedCappedLen(t) ==
    IF t.len - t.residue > ContentCap THEN ContentCap ELSE t.len - t.residue

\* C30: after the full-article step the content is the fetched text exactly
\* when the fetch is configured, succeeded and its text is strictly longer
\* than the working content (a text of equal length does not replace it);
\* whether replaced, kept, fetch failed or fetch not configured, the content
\* has been through cleanContent and has at most ContentCap characters.
C30_ReplaceIffLonger ==
    InFullArticleStep /\ unit.pc = "done" =>
        LET replaced == /\ unit.configured
                        /\ unit.fetch = "ok"
                        /\ unit.fullContentText.len > unit.summary.len
        IN  /\ unit.content.len =
                  IF replaced THEN CleanedCappedLen(unit.fullContentText)
                  ELSE CleanedCappedLen(unit.summary)
            /\ unit.content.residue = 0
            /\ unit.content.len <= ContentCap

\* a fetched text as long as the working content, with something left to
\* clean in it, did not replace the working content
C30_Witness ==
    /\ InFullArticleStep /\ unit.pc = "done"
    /\ unit.configured /\ unit.fetch = "ok"
    /\ unit.fullContentText = [len |-> 20, residue |-> 1]
    /\ unit.summary = [len |-> 20, residue |-> 0]
    /\ unit.content.len = 20

\* C31: a full-article fetch is issued only for a source that sets
\* fetchFullArticle and has at least one full-content selector; when the
\* source has a rate-limit delay, the wait comes right before each such
\* fetch; and the fetch is rendered exactly when the listing fetch of the
\* source was rendered.
C31_FetchOnlyIfConfigured ==
    InHarvestFetches =>
        \A k \in DOMAIN unit.log :
            unit.log[k] \in {"article.rendered", "article.direct"} =>
                /\ unit.cfg.fetchFullArticle
                /\ unit.cfg.fullContentSelectors > 0
                /\ unit.cfg.rateLimitMs > 0 => unit.log[k - 1] = "wait"
                /\ unit.log[k] = "article.rendered" <=>
                      unit.log[1] = "listing.rendered"

\* a source with a delay and a rendered listing has fetched its second
\* article page
C31_Witness ==
    /\ InHarvestFetches
    /\ unit.cfg.rateLimitMs > 0
    /\ unit.log = <<"listing.rendered", "wait", "article.rendered",
                    "wait", "article.rendered">>

\* C33: an empty string from the rendered fetch has the effect of an HTTP
\* failure: after the listing fetch the harvest returns [] without taking
\* a candidate, and after an article fetch the candidate's content is its
\* cleaned, capped summary.
C33_EmptyIsFailure ==
    InHarvestFetches =>
        /\ unit.listing \in {"empty", "httpError"} =>
              /\ unit.pc = "returned"
              /\ unit.returned = "[]"
              /\ unit.n = 0
              /\ Len(unit.log) = 1
        /\ unit.fetch \in {"empty", "httpError"} =>
              /\ unit.content.len =
                    IF unit.summary.len - unit.summary.residue > ContentCap
                    THEN ContentCap
                    ELSE unit.summary.len - unit.summary.residue
              /\ unit.pc \in {"candidate", "returned"}

\* the rendered fetch of an article page gave '' after the rendered listing
\* fetch succeeded, and the harvest went on to return its articles
C33_Witness ==
    /\ InHarvestFetches
    /\ unit.cfg.useDynamicContent
    /\ unit.fetch = "empty"
    /\ unit.summary.len > ContentCap
    /\ unit.content.len = ContentCap
    /\ unit.returned = "articles"

RECURSIVE EmittedPositions(_, _, _)
EmittedPositions(doc, lim, n) ==
    IF n = 0 THEN <<>>
    ELSE LET before == EmittedPositions(doc, lim, n - 1)
         IN  IF /\ Len(before) < lim
                /\ doc[n].fate = "passes"
                /\ \A j \in DOMAIN before : doc[before[j]].url # doc[n].url
             THEN Append(before, n)
             ELSE before

\* C34: the elements of the listing page are processed in document order
\* (the loop is through with exactly the elements before the one it is at),
\* so the emitted articles are those of an increasing sequence of positions
\* of the document, and a URL that several elements have is emitted for the
\* first of them that passes validation.
C34_DocumentOrder ==
    InCandidateLoop =>
        LET n == Len(unit.done)
            at == EmittedPositions(unit.doc, unit.lim, n)
        IN  /\ n = IF unit.pc \in {"loop", "returned"}
                   THEN unit.k ELSE unit.k - 1
            /\ \A j \in 1..(Len(at) - 1) : at[j] < at[j + 1]
            /\ unit.articles = [j \in DOMAIN at |-> ArticleOf(unit.doc[at[j]])]
            /\ \A j \in 1..n :
                  unit.done[j] = "emitted" <=> \E p \in DOMAIN at : at[p] = j

\* two elements with one URL and different titles: the first was dropped
\* by the validation, the second was emitted
C34_Witness ==
    /\ InCandidateLoop /\ unit.pc = "returned"
    /\ Len(unit.doc) = 2
    /\ unit.doc[1].url = unit.doc[2].url
    /\ unit.doc[1].title # unit.doc[2].title
    /\ unit.doc[1].fate = "shortContent"
    /\ unit.articles = <<ArticleOf(unit.doc[2])>>

\* C37: the candidates of a harvest are processed one after another: at
\* most one full-article fetch is in flight whatever the concurrency of the
\* limiter, it is the fetch of the element the loop is at and the loop
\* awaits it, and the loop is through with every element before the one it
\* is at (each was emitted or dropped).
C37_OneCandidateAtATime ==
    InCandidateLoop =>
        /\ Cardinality(unit.inFlight) <= 1
        /\ unit.active = Cardinality(unit.inFlight)
        /\ unit.inFlight # {} =>
              (unit.inFlight = {unit.k} /\ unit.pc = "await")
        /\ unit.pc \in {"link", "extract", "await", "validate", "caught"} =>
              (unit.k >= 1 /\ Len(unit.done) = unit.k - 1)
        /\ \A j \in DOMAIN unit.done : unit.done[j] \in {"emitted", "dropped"}

\* the fetch of the second element is in flight under a limiter that would
\* admit more, after the first element was emitted
C37_Witness ==
    /\ InCandidateLoop /\ unit.pc = "await"
    /\ unit.c > 1
    /\ unit.k = 2
    /\ unit.inFlight = {2}
    /\ unit.done = <<"emitted">>

\* the score without the hyperlink penalty, before the floor
ScoreBeforePenalty(el, selector) ==
    el.textLength + tagBoost(el.tagName) + selectorBoost(selector)
        - (IF el.inIgnored THEN 50 ELSE 0)

\* C36: the score is never negative and is zero for a node that is not a
\* tag; the 10 points of the hyperlink penalty are taken off exactly when
\* the node is a hyperlink and the field that is extracted is neither
\* 'link' nor 'title', whatever the text of the selector.
C36_PenaltyByField ==
    (InScoreElement /\ unit.pc = "returned") =>
        /\ unit.score >= 0
        /\ unit.element.type # "tag" => unit.score = 0
        /\ unit.element.type = "tag" =>
              unit.score =
                 Max(0, ScoreBeforePenalty(unit.element, unit.selector)
                        - (IF /\ unit.element.tagName = "a"
                              /\ unit.field \notin {"link", "title"}
                           THEN 10 ELSE 0))

\* the matches selectBest may return: visible and long enough
ValidMatches(u) ==
    {k \in DOMAIN u.matches :
        /\ ~u.matches[k].node.hidden
        /\ (u.minLength = 0
               \/ Len(candidateText(u.field, u.matches[k])) >= u.minLength)}

\* C35: selectBest returns the value of the valid match with the highest
\* score over the matches of all selectors together, the first of them
\* (selector order, then document order) when several have that score; a
\* hidden node or a value shorter than the field's minimum length is never
\* returned, and without a valid match the result is empty.
C35_BestOverAllSelectors ==
    (InSelectBest /\ unit.pc = "returned") =>
        LET valid == ValidMatches(unit)
        IN  IF valid = {}
            THEN unit.bestElement = 0 /\ unit.bestMatchText = ""
            ELSE /\ unit.bestElement \in valid
                 /\ unit.bestMatchText =
                       candidateText(unit.field, unit.matches[unit.bestElement])
                 /\ \A k \in valid :
                       /\ candidateScore(unit.field, unit.matches[k]) <=
                          candidateScore(unit.field,
                                         unit.matches[unit.bestElement])
                       /\ candidateScore(unit.field, unit.matches[k]) =
                          candidateScore(unit.field,
                                         unit.matches[unit.bestElement])
                          => unit.bestElement <= k

\* the first selector has a visible match, the returned one is a match of
\* the second selector with a higher score, and a later match has the same
\* score as the returned one
C35_Witness ==
    /\ InSelectBest /\ unit.pc = "returned"
    /\ Len(unit.matches) = 3
    /\ ~unit.matches[1].node.hidden
    /\ unit.matches[1].selector = 1
    /\ unit.bestElement = 2
    /\ unit.matches[2].selector = 2
    /\ unit.matches[3] = unit.matches[2]

\* C38: the seen-URL set of a harvest is the set of URLs of the articles it
\* has emitted so far, at every iteration boundary and in between: a URL
\* is in it exactly when an element with that URL was emitted, so an
\* element dropped by the validation, by the link check or by an exception
\* leaves its URL unseen, and a later element with the same URL gets past
\* the link check again.
C38_SeenIsEmitted ==
    InCandidateLoop =>
        /\ unit.seenUrls = {unit.articles[j].url : j \in DOMAIN unit.articles}
        /\ \A u \in LoopUrls :
              u \in unit.seenUrls <=>
                 \E j \in DOMAIN unit.done :
                    unit.done[j] = "emitted" /\ unit.doc[j].url = u
        /\ unit.pc = "loop" =>
              Cardinality(unit.seenUrls) = Len(unit.articles)
        /\ \A j \in DOMAIN unit.done :
              (unit.done[j] = "dropped" /\ unit.doc[j].fate = "passes") =>
                 \E h \in 1..(j - 1) :
                    /\ unit.done[h] = "emitted"
                    /\ unit.doc[h].url = unit.doc[j].url

\* the first element was dropped by the validation and the second, which
\* has the same URL, has passed the link check
C38_Witness ==
    /\ InCandidateLoop /\ unit.pc = "extract"
    /\ unit.k = 2
    /\ unit.doc[1].url = unit.doc[2].url
    /\ unit.doc[1].fate = "shortContent"
    /\ unit.done = <<"dropped">>
    /\ unit.seenUrls = {}

\* entries of allErrors that carry the URL of an article
ArticleErrors == {n \in DOMAIN allErrors : allErrors[n].url # ""}

\* C39: processedCount never exceeds the number of harvested articles
\* counted so far, and in the returned result every harvested article is
\* accounted for exactly once: articlesScraped is processedCount plus the
\* number of error entries that carry an article URL.
C39_EveryArticleAccounted ==
    /\ processedCount <= totalArticlesScraped
    /\ processedCount + Cardinality(ArticleErrors) <= totalArticlesScraped
    /\ batch = "returned" =>
          /\ result.processedCount <= result.articlesScraped
          /\ result.articlesScraped =
                result.processedCount + Cardinality(ArticleErrors)
          /\ Len(result.errors) = Len(allErrors)

\* a returned batch with two harvested articles, one stored and one failed
C39_Witness ==
    /\ batch = "returned"
    /\ result.articlesScraped = 2
    /\ result.processedCount = 1
    /\ Cardinality(ArticleErrors) = 1

\* the last successful store call with the id key
LastPut(calls, key) ==
    CHOOSE n \in DOMAIN calls :
        /\ calls[n].ok /\ calls[n].id = key
        /\ \A m \in DOMAIN calls :
              (calls[m].ok /\ calls[m].id = key) => m <= n

\* C40: every store call has as id the URL-safe base64 encoding of the url
\* of the record it stores, so two calls write to the same key exactly
\* when their records have the same URL; the storage holds under each key
\* the record of the last successful call with that key, and the number of
\* keys never exceeds processedCount.
C40_KeyIsEncodedUrl ==
    InStore =>
        /\ \A n \in DOMAIN unit.calls :
              unit.calls[n].id = encodeBase64UrlSafe(unit.calls[n].data.url)
        /\ \A n, m \in DOMAIN unit.calls :
              unit.calls[n].id = unit.calls[m].id <=>
                 unit.calls[n].data.url = unit.calls[m].data.url
        /\ DOMAIN unit.storage =
              {unit.calls[n].id : n \in {m \in DOMAIN unit.calls :
                                            unit.calls[m].ok}}
        /\ \A key \in DOMAIN unit.storage :
              unit.storage[key] = unit.calls[LastPut(unit.calls, key)].data
        /\ Cardinality(DOMAIN unit.storage) <= unit.processedCount

\* the articles of the two sources have the same URL, both were stored:
\* processedCount is 2, the storage holds one record, that of the later
\* call
C40_Witness ==
    /\ InStore
    /\ unit.articles[1].url = unit.articles[2].url
    /\ unit.articles[1].source # unit.articles[2].source
    /\ unit.processedCount = 2
    /\ Cardinality(DOMAIN unit.storage) = 1
    /\ Len(unit.calls) = 2
    /\ unit.storage[unit.calls[2].id] = unit.calls[2].data
    /\ unit.calls[1].data # unit.calls[2].data

====
